---- MODULE Spec2Model ----
(***************************************************************************)
(* Community feed (Django REST backend + React frontend).                  *)
(*                                                                         *)
(* The model covers the four mechanisms of the backend that the frontend   *)
(* in src/frontend drives through services/api.js:                         *)
(*   - the like ledgers (PostLike, CommentLike) and the like/unlike views, *)
(*   - the 24-hour leaderboard query,                                      *)
(*   - the materialized-path comment table and comment creation,           *)
(*   - the one-pass tree building of PostDetailSerializer.get_comments.    *)
(* Backend code is taken from the listings of src/EXPLAINER.md; the parts  *)
(* of the backend that have no listing there are modelled from the design  *)
(* text and are marked so where they are defined.                          *)
(***************************************************************************)
EXTENDS Integers, Sequences, FiniteSets, Bags, TLC

(***************************************************************************)
(* Bounds of the model.                                                    *)
(***************************************************************************)
\* users of the site: ids 1..NUsers
NUsers == 2
\* like/unlike requests that can be in flight or answered at one time
NReq == 2
\* concurrent like calls of the race scenario (SpecRace)
NRace == 4

\* the leaderboard window, timedelta(hours=24), in ticks of the model's clock
Window == 1
\* like rows of the ledgers the leaderboard is computed from (SpecKarma)
MaxLikes == 3

\* createComment requests that can be in flight at one time
NCreate == 2
\* rows of the Comment table (SpecTree)
MaxComments == 3
\* digits a path segment is zero-padded to.  The paths of EXPLAINER.md
\* ("0001.0001") pad to 4 digits; the model pads to PadWidth digits, so that
\* the first segment that needs more digits is sibling 10 of a group.
PadWidth == 1
\* rows of the Comment table when one client fills a sibling group (SpecWide)
MaxWide == 10
\* rows handed to get_comments (SpecBuild)
MaxSeq == 3

\* login / register / logout calls of AuthProvider that can be in flight
NAuth == 1
\* rows of the Comment table when the comments of a post are replied to in
\* the page (SpecThread)
MaxThread == 6
\* rows of the Post table when the feed is paged (SpecFeed)
MaxPosts == 4
\* posts of one page of GET /posts/
PageSize == 2
\* fetchPosts calls of one Feed component
MaxFetches == 3
\* the like button is clicked while the count it shows is within
\* -MaxShown..MaxShown
MaxShown == 2

Users == 1..NUsers
Reqs == 1..NReq
Creators == 1..NCreate
\* the user signed in at client k
SessionUser(k) == ((k - 1) % NUsers) + 1
\* the clock runs far enough for a like to fall out of the window
MaxTime == Window + 1
Times == 0..MaxTime

\* null (no parent comment)
None == 0
\* Count('id') * 5 for a post like, Count('id') for a comment like, [:5]
weight_post == 5
weight_comment == 1
TopN == 5
\* {user && depth < 5 && (<button>Reply</button>)}
ReplyDepthLimit == 5

VARIABLES
  posts,         \* the Post table: rows [id, author]
  comments,      \* the Comment table: rows [id, post, parent, author, path, depth]
  postLikes,     \* the PostLike table: a bag of rows [post, user, created_at]
  commentLikes,  \* the CommentLike table: a bag of rows [comment, user, created_at]
  now,           \* the server clock (timezone.now())
  req,           \* like/unlike requests: slot -> [op, kind, subject, user, pc, result]
  leaderboard,   \* Leaderboard component: the entries [id, karma] last received
  lastUpdated,   \* Leaderboard component: <<calculated_at>> of that response, <<>> if none
  creq,          \* createComment requests: slot -> [post, parent, author, pc, seen]
  locks,         \* the (post, parent) scopes whose path allocation is in progress
  treeInput,     \* get_comments: the rows read, in the order read
  treeOutput,    \* get_comments: [status, root_comments, replies]; Post: comments
  currentUser,   \* AuthProvider: user (None when nobody is signed in)
  authLoading,   \* AuthProvider: loading
  authCalls,     \* calls of services/api.js made by AuthProvider: slot -> [op, pc, data]
  widget,        \* Post / CommentItem: [kind, subject, isLiked, likeCount]
  pending,       \* the like/unlike requests a handleLike call is awaiting
  feed,          \* Feed: [posts, loading, page, hasMore, isSubmitting, newPostContent, calls]
  fetches,       \* Feed.fetchPosts calls, in the order issued
  forms,         \* comment forms: 0 for Post's, c for CommentItem c's reply form
  postView       \* Post: [showComments, reloads, detached]

tableVars == <<posts, comments>>
ledgerVars == <<postLikes, commentLikes>>
boardVars == <<leaderboard, lastUpdated>>
createVars == <<creq, locks>>
treeVars == <<treeInput, treeOutput>>
authVars == <<currentUser, authLoading, authCalls>>
widgetVars == <<widget, pending>>
feedVars == <<feed, fetches>>
formVars == <<forms, postView>>
uiVars == <<authVars, widgetVars, feedVars, formVars>>
vars == <<posts, comments, postLikes, commentLikes, now, req, leaderboard, lastUpdated,
          creq, locks, treeInput, treeOutput, currentUser, authLoading, authCalls,
          widget, pending, feed, fetches, forms, postView>>

(***************************************************************************)
(* Bags of rows                                                            *)
(***************************************************************************)
RECURSIVE SumOver(_, _)
\* the sum of f[x] over the finite set S
SumOver(f, S) ==
  IF S = {} THEN 0
  ELSE LET x == CHOOSE y \in S : TRUE IN f[x] + SumOver(f, S \ {x})

\* the number of rows of table T (a bag) among the rows hit: COUNT(*)
CountRows(T, hit) == SumOver(T, hit \cap DOMAIN T)

\* table T without the rows hit: DELETE
DeleteRows(T, hit) == [row \in DOMAIN T \ hit |-> T[row]]

\* table T with one more copy of row: INSERT
InsertRow(T, row) == T (+) SetToBag({row})

(***************************************************************************)
(* Like ledgers                                                            *)
(***************************************************************************)
PostIds == {p.id : p \in posts}
CommentIds == {c.id : c \in comments}

\* Mutation of unique_post_like: the table has no constraint.
unique_post_like_absent(T, post, user) == TRUE

\* PostLike.Meta.constraints: UniqueConstraint(fields=['post', 'user']).
\* TRUE when the store accepts a new row for (post, user).
unique_post_like(T, post, user) ==
  \A row \in DOMAIN T : ~(row.post = post /\ row.user = user)

\* The same constraint on CommentLike (comment, user).
unique_comment_like(T, comment, user) ==
  \A row \in DOMAIN T : ~(row.comment = comment /\ row.user = user)

IdleReq ==
  [op |-> "none", kind |-> "none", subject |-> None, user |-> None,
   pc |-> "idle", result |-> "none"]

\* likePost / unlikePost / likeComment / unlikeComment of services/api.js:
\* a signed-in client sends POST /posts/<id>/like/ (or unlike, or the
\* comment variant).  A slot is free when it is idle or already answered.
SendLikeRequest(r, op, kind, subject, user) ==
  /\ req[r].pc \in {"idle", "done"}
  /\ op \in {"like", "unlike"}
  /\ \/ kind = "post" /\ subject \in PostIds
     \/ kind = "comment" /\ subject \in CommentIds
  /\ req' = [req EXCEPT ![r] =
       [op |-> op, kind |-> kind, subject |-> subject, user |-> user,
        pc |-> "sent", result |-> "none"]]
  /\ UNCHANGED <<tableVars, ledgerVars, now, boardVars, createVars, treeVars, uiVars>>

\* post = self.get_object(): the view reads the subject of the request.
\* Posts and comments are never deleted, so the subject is found.
get_object(r) ==
  /\ req[r].pc = "sent"
  /\ \/ req[r].kind = "post" /\ req[r].subject \in PostIds
     \/ req[r].kind = "comment" /\ req[r].subject \in CommentIds
  /\ req' = [req EXCEPT ![r].pc = "found"]
  /\ UNCHANGED <<tableVars, ledgerVars, now, boardVars, createVars, treeVars, uiVars>>

\* the response of a view: the request data is dropped, the outcome kept
Answer(r, result) == [req EXCEPT ![r] = [IdleReq EXCEPT !.pc = "done", !.result = result]]

\* the view is at its statement on the ledger: get_object has run as a step
\* of its own, or runs here (it reads a row that never changes)
AtLedger(r, op, kind) ==
  /\ req[r].pc \in {"sent", "found"}
  /\ req[r].op = op /\ req[r].kind = kind

\* Mutation of like: on the constraint violation the view gives no answer.
like_no_answer_on_conflict(r) ==
  /\ AtLedger(r, "like", "post")
  /\ unique_post_like(postLikes, req[r].subject, req[r].user)
  /\ postLikes' = InsertRow(postLikes,
        [post |-> req[r].subject, user |-> req[r].user, created_at |-> now])
  /\ req' = Answer(r, "liked")
  /\ UNCHANGED <<tableVars, commentLikes, now, boardVars, createVars, treeVars, uiVars>>

\* Mutation of like: update_or_create, a second like stamps the row anew.
like_update_or_create(r) ==
  /\ AtLedger(r, "like", "post")
  /\ IF unique_post_like(postLikes, req[r].subject, req[r].user)
     THEN /\ postLikes' = InsertRow(postLikes,
               [post |-> req[r].subject, user |-> req[r].user, created_at |-> now])
          /\ req' = Answer(r, "liked")
     ELSE /\ postLikes' = SetToBag(
               {IF row.post = req[r].subject /\ row.user = req[r].user
                THEN [row EXCEPT !.created_at = now] ELSE row :
                  row \in DOMAIN postLikes})
          /\ req' = Answer(r, "AlreadyLiked")
  /\ UNCHANGED <<tableVars, commentLikes, now, boardVars, createVars, treeVars, uiVars>>

\* Mutation of like: get_or_create, a second like is answered as the first.
like_get_or_create(r) ==
  /\ AtLedger(r, "like", "post")
  /\ IF unique_post_like(postLikes, req[r].subject, req[r].user)
     THEN postLikes' = InsertRow(postLikes,
               [post |-> req[r].subject, user |-> req[r].user, created_at |-> now])
     ELSE postLikes' = postLikes
  /\ req' = Answer(r, "liked")
  /\ UNCHANGED <<tableVars, commentLikes, now, boardVars, createVars, treeVars, uiVars>>

\* PostViewSet.like after get_object: PostLike.objects.create inside
\* transaction.atomic(); IntegrityError is answered 400 'Already liked'.
like(r) ==
  /\ AtLedger(r, "like", "post")
  /\ IF unique_post_like(postLikes, req[r].subject, req[r].user)
     THEN /\ postLikes' = InsertRow(postLikes,
               [post |-> req[r].subject, user |-> req[r].user, created_at |-> now])
          /\ req' = Answer(r, "liked")
     ELSE /\ postLikes' = postLikes
          /\ req' = Answer(r, "AlreadyLiked")
  /\ UNCHANGED <<tableVars, commentLikes, now, boardVars, createVars, treeVars, uiVars>>

\* CommentViewSet.like: the comment variant of like.
likeComment(r) ==
  /\ AtLedger(r, "like", "comment")
  /\ IF unique_comment_like(commentLikes, req[r].subject, req[r].user)
     THEN /\ commentLikes' = InsertRow(commentLikes,
               [comment |-> req[r].subject, user |-> req[r].user, created_at |-> now])
          /\ req' = Answer(r, "liked")
     ELSE /\ commentLikes' = commentLikes
          /\ req' = Answer(r, "AlreadyLiked")
  /\ UNCHANGED <<tableVars, postLikes, now, boardVars, createVars, treeVars, uiVars>>

\* Mutation of unlike: the delete is answered as a success whether or not
\* it found a row.
unlike_silent(r) ==
  /\ AtLedger(r, "unlike", "post")
  /\ postLikes' = DeleteRows(postLikes,
        {row \in DOMAIN postLikes :
           row.post = req[r].subject /\ row.user = req[r].user})
  /\ req' = Answer(r, "unliked")
  /\ UNCHANGED <<tableVars, commentLikes, now, boardVars, createVars, treeVars, uiVars>>

\* PostViewSet.unlike: delete the row of (post, user) if there is one,
\* answer NotLiked if there is none.
unlike(r) ==
  /\ AtLedger(r, "unlike", "post")
  /\ LET Mine == {row \in DOMAIN postLikes :
                    row.post = req[r].subject /\ row.user = req[r].user} IN
     IF CountRows(postLikes, Mine) > 0
     THEN /\ postLikes' = DeleteRows(postLikes, Mine)
          /\ req' = Answer(r, "unliked")
     ELSE /\ postLikes' = postLikes
          /\ req' = Answer(r, "NotLiked")
  /\ UNCHANGED <<tableVars, commentLikes, now, boardVars, createVars, treeVars, uiVars>>

\* CommentViewSet.unlike: the comment variant of unlike.
unlikeComment(r) ==
  /\ AtLedger(r, "unlike", "comment")
  /\ LET Mine == {row \in DOMAIN commentLikes :
                    row.comment = req[r].subject /\ row.user = req[r].user} IN
     IF CountRows(commentLikes, Mine) > 0
     THEN /\ commentLikes' = DeleteRows(commentLikes, Mine)
          /\ req' = Answer(r, "unliked")
     ELSE /\ commentLikes' = commentLikes
          /\ req' = Answer(r, "NotLiked")
  /\ UNCHANGED <<tableVars, postLikes, now, boardVars, createVars, treeVars, uiVars>>

\* a like or unlike call is abandoned by its caller, or fails, before its
\* statement on the ledger has run: nothing was written inside
\* transaction.atomic(), and the caller gets a failure
abandonLike(r) ==
  /\ req[r].pc \in {"sent", "found"}
  /\ req' = Answer(r, "failed")
  /\ UNCHANGED <<tableVars, ledgerVars, now, boardVars, createVars, treeVars, uiVars>>

(***************************************************************************)
(* Leaderboard (LeaderboardView.get)                                       *)
(***************************************************************************)
Min(a, b) == IF a <= b THEN a ELSE b

\* every order in which the rows of a query without ORDER BY can arrive:
\* the sequences that list each element of S once
Orderings(S) ==
  {s \in [1..Cardinality(S) -> S] : \A x \in S : \E i \in DOMAIN s : s[i] = x}

post__author(post) == (CHOOSE p \in posts : p.id = post).author
comment__author(comment) == (CHOOSE c \in comments : c.id = comment).author

\* cutoff = timezone.now() - timedelta(hours=24)
cutoff(tnow) == tnow - Window

\* Mutation of created_at__gte: created_at__gt.
created_at__gt(row, tcut) == row.created_at > tcut

\* .filter(created_at__gte=cutoff)
created_at__gte(row, tcut) == row.created_at >= tcut

\* Mutation of post_karma: Sum(Value(5)) as the listing of Bug #1 computed
\* it, the constant whatever the number of rows.
post_karma_sum_of_constant(T, tnow) ==
  LET authors == {post__author(row.post) :
                    row \in {x \in DOMAIN T : created_at__gte(x, cutoff(tnow))}}
  IN [a \in authors |-> weight_post]

\* Mutation of post_karma: one group per author of a post, liked or not
\* (a join from the users, without a karma > 0 filter).
post_karma_every_author(T, tnow) ==
  [a \in {p.author : p \in posts} |->
     weight_post * CountRows(T, {row \in DOMAIN T :
        created_at__gte(row, cutoff(tnow)) /\ post__author(row.post) = a})]

\* PostLike.objects.filter(created_at__gte=cutoff).values('post__author')
\*   .annotate(karma=Count('id') * 5): one group per author with rows.
post_karma(T, tnow) ==
  LET InWindow(row) == created_at__gte(row, cutoff(tnow))
      authors == {post__author(row.post) : row \in {x \in DOMAIN T : InWindow(x)}}
      Group(a) == CountRows(T, {row \in DOMAIN T :
                                  InWindow(row) /\ post__author(row.post) = a})
  IN [a \in authors |-> Group(a) * weight_post]

\* CommentLike.objects.filter(created_at__gte=cutoff).values('comment__author')
\*   .annotate(karma=Count('id'))
comment_karma(T, tnow) ==
  LET InWindow(row) == created_at__gte(row, cutoff(tnow))
      authors == {comment__author(row.comment) :
                    row \in {x \in DOMAIN T : InWindow(x)}}
      Group(a) == CountRows(T, {row \in DOMAIN T :
                                  InWindow(row) /\ comment__author(row.comment) = a})
  IN [a \in authors |-> Group(a) * weight_comment]

\* karma_by_user[user_id] = karma_by_user.get(user_id, 0) + item['karma'] on a
\* dict, which keeps its keys in the order of their first insertion: the
\* dict is a sequence of items [id, karma].
DictAdd(d, user_id, karma) ==
  IF \E i \in DOMAIN d : d[i].id = user_id
  THEN [i \in DOMAIN d |->
          IF d[i].id = user_id THEN [id |-> user_id, karma |-> d[i].karma + karma]
          ELSE d[i]]
  ELSE Append(d, [id |-> user_id, karma |-> karma])

RECURSIVE Combine(_, _, _)
\* for item in <query>: karma_by_user[...] = ... ; items is the query result
\* (a function author -> karma) and order the order its rows arrive in
Combine(d, items, order) ==
  IF order = <<>> THEN d
  ELSE Combine(DictAdd(d, Head(order), items[Head(order)]), items, Tail(order))

\* the two loops of the view, post_karma first
karma_by_user(pk, porder, ck, corder) ==
  Combine(Combine(<<>>, pk, porder), ck, corder)

RECURSIVE sorted(_)
\* sorted(items, key=lambda x: x[1], reverse=True): descending by karma, and
\* stable, so items of equal karma keep the order they had in the dict
sorted(d) ==
  IF d = <<>> THEN <<>>
  ELSE LET top == CHOOSE i \in DOMAIN d :
                    /\ \A j \in DOMAIN d : d[j].karma <= d[i].karma
                    /\ \A j \in 1..(i - 1) : d[j].karma < d[i].karma
           rest == [j \in 1..(Len(d) - 1) |-> IF j < top THEN d[j] ELSE d[j + 1]]
       IN <<d[top]>> \o sorted(rest)

\* Mutation of sorted_users: the limit is applied before the ranking.
sorted_users_limit_first(d) == sorted(SubSeq(d, 1, Min(TopN, Len(d))))

\* sorted_users = sorted(...)[:5]
sorted_users(d) == SubSeq(sorted(d), 1, Min(TopN, Len(d)))

\* Mutation of get: the view answers from a result it computed before,
\* once there is one.
get_cached ==
  IF lastUpdated # <<>> THEN {leaderboard}
  ELSE LET pk == post_karma(postLikes, now)
           ck == comment_karma(commentLikes, now)
       IN {sorted_users(karma_by_user(pk, porder, ck, corder)) :
             porder \in Orderings(DOMAIN pk), corder \in Orderings(DOMAIN ck)}

\* LeaderboardView.get: the leaderboards the view can answer with in this
\* state.  The two grouped queries have no ORDER BY: their rows arrive in
\* any order.
get ==
  LET pk == post_karma(postLikes, now)
      ck == comment_karma(commentLikes, now)
  IN {sorted_users(karma_by_user(pk, porder, ck, corder)) :
        porder \in Orderings(DOMAIN pk), corder \in Orderings(DOMAIN ck)}

\* fetchLeaderboard of the Leaderboard component: getLeaderboard(), then
\* setLeaderboard(data.leaderboard), setLastUpdated(data.calculated_at)
fetchLeaderboard ==
  \E data \in get :
    /\ leaderboard' = data
    /\ lastUpdated' = <<now>>
    /\ UNCHANGED <<tableVars, ledgerVars, now, req, createVars, treeVars, uiVars>>

\* time passes
Tick ==
  /\ now < MaxTime
  /\ now' = now + 1
  /\ UNCHANGED <<tableVars, ledgerVars, req, boardVars, createVars, treeVars, uiVars>>

(***************************************************************************)
(* Comment paths as stored: path = models.CharField(max_length=500)        *)
(***************************************************************************)
\* a text is a sequence of character codes: "0" is 48, "." is 46
RECURSIVE Digits(_)
\* the decimal digits of n >= 0
Digits(n) == IF n < 10 THEN <<48 + n>> ELSE Digits(n \div 10) \o <<48 + (n % 10)>>

\* one segment, zero-padded: "0001" for 1
segment_text(n) ==
  LET d == Digits(n) IN
  IF Len(d) >= PadWidth THEN d ELSE [i \in 1..(PadWidth - Len(d)) |-> 48] \o d

RECURSIVE path_text(_)
\* the column value of a path: its segments joined by ".", "0001.0002"
path_text(path) ==
  IF Len(path) = 1 THEN segment_text(path[1])
  ELSE path_text(SubSeq(path, 1, Len(path) - 1)) \o <<46>> \o segment_text(path[Len(path)])

\* a < b as the store compares the text of two CharField values
text_less(a, b) ==
  \/ \E i \in 1..Min(Len(a), Len(b)) :
       /\ \A j \in 1..(i - 1) : a[j] = b[j]
       /\ a[i] < b[i]
  \/ /\ Len(a) < Len(b)
     /\ \A j \in 1..Len(a) : a[j] = b[j]

RECURSIVE order_by_path(_)
\* obj.comments.order_by('path'): the rows of S, ascending by the path column
order_by_path(S) ==
  IF S = {} THEN <<>>
  ELSE LET first == CHOOSE c \in S :
                      \A d \in S : ~text_less(path_text(d.path), path_text(c.path))
       IN <<first>> \o order_by_path(S \ {first})

(***************************************************************************)
(* Comment creation (POST /comments/, createComment of services/api.js)    *)
(***************************************************************************)
IdleCreate ==
  [post |-> None, parent |-> None, author |-> None, pc |-> "idle", seen |-> 0]

CommentsOf(post) == {c \in comments : c.post = post}
Siblings(post, parent) == {c \in comments : c.post = post /\ c.parent = parent}
InFlight == {k \in Creators : creq[k].pc \notin {"idle", "failed"}}

Max(S) == CHOOSE x \in S : \A y \in S : y <= x

\* createComment(postId, content, parentId = null): the client posts
\* {post, content, parent}; parent is null or a comment of that post.
\* cap bounds the rows of the table.
postComment(k, post, parent, author, cap) ==
  /\ creq[k].pc \in {"idle", "failed"}
  /\ Cardinality(comments) + Cardinality(InFlight) < cap
  /\ post \in PostIds
  /\ parent = None \/ parent \in {c.id : c \in CommentsOf(post)}
  /\ creq' = [creq EXCEPT ![k] =
       [post |-> post, parent |-> parent, author |-> author, pc |-> "sent", seen |-> 0]]

\* a createComment call of a client whose page state the model leaves out
createComment(k, post, parent, author, cap) ==
  /\ postComment(k, post, parent, author, cap)
  /\ UNCHANGED <<tableVars, ledgerVars, now, req, boardVars, locks, treeVars, uiVars>>

\* Mutation of scope_free: allocation takes no lock.
scope_never_held(post, parent) == TRUE

\* the allocation scope (post, parent) is not held by another request
scope_free(post, parent) == <<post, parent>> \notin locks

\* serialization point 1: enter the exclusive section of (post, parent)
lock_scope(k) ==
  /\ creq[k].pc = "sent"
  /\ scope_free(creq[k].post, creq[k].parent)
  /\ locks' = locks \cup {<<creq[k].post, creq[k].parent>>}
  /\ creq' = [creq EXCEPT ![k].pc = "locked"]
  /\ UNCHANGED <<tableVars, ledgerVars, now, req, boardVars, treeVars, uiVars>>

\* Mutation of max_sibling_segment: the maximum is taken over the first
\* segments of all comments of the post.
max_segment_of_post(post, parent) ==
  LET first == {c.path[1] : c \in CommentsOf(post)}
  IN IF first = {} THEN 0 ELSE Max(first)

\* the maximum last segment among the direct children of the parent (the
\* roots of the post when there is no parent), 0 if there are none
max_sibling_segment(post, parent) ==
  LET last == {c.path[Len(c.path)] : c \in Siblings(post, parent)}
  IN IF last = {} THEN 0 ELSE Max(last)

\* read the maximum inside the exclusive section
read_max(k) ==
  /\ creq[k].pc = "locked"
  /\ creq' = [creq EXCEPT ![k].pc = "read",
                          ![k].seen = max_sibling_segment(creq[k].post, creq[k].parent)]
  /\ UNCHANGED <<tableVars, ledgerVars, now, req, boardVars, locks, treeVars, uiVars>>

\* Mutation of allocate: the parent's own path is reused.
allocate_parent_path(parentPath, existingSiblingMaxSegment) ==
  IF parentPath = <<>> THEN <<existingSiblingMaxSegment + 1>> ELSE parentPath

\* allocate(parentPath, existingSiblingMaxSegment): the parent's path (empty
\* for a root) with the next segment appended
allocate(parentPath, existingSiblingMaxSegment) ==
  Append(parentPath, existingSiblingMaxSegment + 1)

\* what a createComment request that ends without a row leaves in its slot
FailedCreate == [IdleCreate EXCEPT !.pc = "failed"]

\* Mutation of abandonCreate: a request abandoned after its read leaves the
\* row it was about to write, without path.
abandonCreate_partial(k) ==
  /\ creq[k].pc \in {"sent", "locked", "read"}
  /\ comments' =
       IF creq[k].pc = "read"
       THEN comments \cup
              {[id |-> Cardinality(comments) + 1, post |-> creq[k].post,
                parent |-> creq[k].parent, author |-> creq[k].author,
                path |-> <<>>, depth |-> 0]}
       ELSE comments
  /\ locks' = IF creq[k].pc = "sent" THEN locks
            ELSE locks \ {<<creq[k].post, creq[k].parent>>}
  /\ creq' = [creq EXCEPT ![k] = FailedCreate]
  /\ UNCHANGED <<posts, ledgerVars, now, req, boardVars, treeVars, uiVars>>

\* a createComment request is abandoned, or fails, before its insert: the
\* transaction rolls back, the exclusive section is left, no row is written
abandonCreate(k) ==
  /\ creq[k].pc \in {"sent", "locked", "read"}
  /\ locks' = IF creq[k].pc = "sent" THEN locks
            ELSE locks \ {<<creq[k].post, creq[k].parent>>}
  /\ creq' = [creq EXCEPT ![k] = FailedCreate]
  /\ UNCHANGED <<tableVars, ledgerVars, now, req, boardVars, treeVars, uiVars>>

\* the stored depth of a path
depth_of(path) == Len(path) - 1

\* insert the row with its path and depth and leave the exclusive section
insert_comment(k) ==
  /\ creq[k].pc = "read"
  /\ LET parentPath ==
           IF creq[k].parent = None THEN <<>>
           ELSE (CHOOSE c \in comments : c.id = creq[k].parent).path
         path == allocate(parentPath, creq[k].seen)
     IN comments' = comments \cup
          {[id |-> Cardinality(comments) + 1, post |-> creq[k].post,
            parent |-> creq[k].parent, author |-> creq[k].author,
            path |-> path, depth |-> depth_of(path)]}
  /\ locks' = locks \ {<<creq[k].post, creq[k].parent>>}
  /\ creq' = [creq EXCEPT ![k] = IdleCreate]
  /\ UNCHANGED <<posts, ledgerVars, now, req, boardVars, treeVars, uiVars>>

(***************************************************************************)
(* Tree building (PostDetailSerializer.get_comments) and its rendering     *)
(***************************************************************************)
NoTree == [status |-> "none", root_comments |-> <<>>, replies |-> <<>>]

\* serialize(comment) as far as the tree needs it
serialize(c) == [id |-> c.id, parent_id |-> c.parent]

\* Mutation of attach: a parent that is not in comment_dict is ignored and
\* the comment is put among the roots.
attach_or_promote(st, c) ==
  IF c.parent_id = None \/ c.parent_id \notin DOMAIN st.replies
  THEN [st EXCEPT !.root_comments = Append(@, c.id)]
  ELSE [st EXCEPT !.replies[c.parent_id] = Append(@, c.id)]

\* Mutation of attach: a reply is appended to its parent and to the roots.
attach_also_root(st, c) ==
  IF c.parent_id = None
  THEN [st EXCEPT !.root_comments = Append(@, c.id)]
  ELSE IF c.parent_id \notin DOMAIN st.replies
       THEN [st EXCEPT !.status = "KeyError"]
       ELSE [st EXCEPT !.replies[c.parent_id] = Append(@, c.id),
                       !.root_comments = Append(@, c.id)]

\* Mutation of attach: a comment is put in front of the list it joins.
attach_front(st, c) ==
  IF c.parent_id = None
  THEN [st EXCEPT !.root_comments = <<c.id>> \o @]
  ELSE IF c.parent_id \notin DOMAIN st.replies
       THEN [st EXCEPT !.status = "KeyError"]
       ELSE [st EXCEPT !.replies[c.parent_id] = <<c.id>> \o @]

\* the second half of the loop body: root_comments.append(comment_data), or
\* comment_dict[comment.parent_id]['replies'].append(comment_data), which
\* raises KeyError when parent_id is not a key of comment_dict
attach(st, c) ==
  IF c.parent_id = None
  THEN [st EXCEPT !.root_comments = Append(@, c.id)]
  ELSE IF c.parent_id \notin DOMAIN st.replies
       THEN [st EXCEPT !.status = "KeyError"]
       ELSE [st EXCEPT !.replies[c.parent_id] = Append(@, c.id)]

RECURSIVE get_comments_loop(_, _, _)
\* for comment in comments: comment_dict[comment.id] = comment_data, then the
\* attachment.  comment_dict is kept as replies: id -> the ids of its replies.
get_comments_loop(rows, i, st) ==
  IF i > Len(rows) \/ st.status = "KeyError" THEN st
  ELSE LET c == rows[i]
           keys == DOMAIN st.replies \cup {c.id}
           registered ==
             [st EXCEPT !.replies =
                [x \in keys |-> IF x = c.id THEN <<>> ELSE st.replies[x]]]
       IN get_comments_loop(rows, i + 1, attach(registered, c))

\* get_comments over the rows read: the forest, or the KeyError raised
get_comments(rows) ==
  LET st == get_comments_loop(rows, 1,
              [status |-> "ok", root_comments |-> <<>>, replies |-> <<>>])
  IN IF st.status = "KeyError" THEN [NoTree EXCEPT !.status = "KeyError"] ELSE st

RECURSIVE CommentItem(_, _)
RECURSIVE CommentList(_, _)
\* CommentItem: the comment, then its replies through comment.replies.map
CommentItem(id, replies) == <<id>> \o CommentList(replies[id], replies)
\* CommentList: comments.map(comment => <CommentItem>), in list order
CommentList(ids, replies) ==
  IF ids = <<>> THEN <<>>
  ELSE CommentItem(Head(ids), replies) \o CommentList(Tail(ids), replies)

\* Post.loadComments: getPost(post.id), whose comments field is get_comments
\* over the rows of the post ordered by path
loadComments(post) ==
  /\ post \in PostIds
  /\ LET rows == order_by_path(CommentsOf(post))
     IN /\ treeInput' = [i \in DOMAIN rows |-> serialize(rows[i])]
        /\ treeOutput' = get_comments(treeInput')
  /\ UNCHANGED <<tableVars, ledgerVars, now, req, boardVars, createVars, uiVars>>

\* get_comments applied to the rows at hand
build ==
  /\ treeOutput.status = "none"
  /\ treeOutput' = get_comments(treeInput)
  /\ UNCHANGED <<tableVars, ledgerVars, now, req, boardVars, createVars, treeInput, uiVars>>

(***************************************************************************)
(* The frontend before it is mounted                                       *)
(***************************************************************************)
\* the slots of authCalls: 0 is init() of the effect, the others are the
\* login, register and logout calls
AuthSlots == 0..NAuth
IdleAuth == [op |-> "none", pc |-> "idle", data |-> None]

\* Post / CommentItem before it is given its post or comment
NoWidget == [kind |-> "none", subject |-> None, isLiked |-> FALSE, likeCount |-> 0]

\* useState of Feed: posts [], loading true, newPostContent '', isSubmitting
\* false, page 1, hasMore true; calls are the createPost calls awaited by
\* handleCreatePost, each [pc, id]: sent, answered with the new post, or failed
NewFeed ==
  [posts |-> <<>>, loading |-> TRUE, page |-> 1, hasMore |-> TRUE,
   isSubmitting |-> FALSE, newPostContent |-> <<>>, calls |-> <<>>]

\* useState of a comment form: isReplying false, replyContent (newComment)
\* '', isSubmitting false; call is the createComment request awaited
FormIds == 0..MaxThread
NewForm ==
  [isReplying |-> FALSE, content |-> <<>>, isSubmitting |-> FALSE,
   call |-> None, pc |-> "idle"]

\* useState of Post: showComments false; reloads counts the getPost calls of
\* handleCommentAdded in flight, detached holds the createComment requests
\* of CommentItems that were unmounted since
NewPostView == [showComments |-> FALSE, reloads |-> 0, detached |-> {}]

FrontendAtRest ==
  /\ currentUser = None
  /\ authLoading = TRUE
  /\ authCalls = [a \in AuthSlots |-> IdleAuth]
  /\ widget = NoWidget
  /\ pending = {}
  /\ feed = NewFeed
  /\ fetches = <<>>
  /\ forms = [f \in FormIds |-> NewForm]
  /\ postView = NewPostView

(***************************************************************************)
(* Seed data: one post and one root comment on it.                         *)
(***************************************************************************)
SeedPosts == {[id |-> 1, author |-> 1]}
SeedComments ==
  {[id |-> 1, post |-> 1, parent |-> None, author |-> NUsers,
    path |-> <<1>>, depth |-> 0]}

Init ==
  /\ posts = SeedPosts
  /\ comments = SeedComments
  /\ postLikes = EmptyBag
  /\ commentLikes = EmptyBag
  /\ now = 0
  /\ req = [r \in Reqs |-> IdleReq]
  /\ leaderboard = <<>>
  /\ lastUpdated = <<>>
  /\ creq = [k \in Creators |-> IdleCreate]
  /\ locks = {}
  /\ treeInput = <<>>
  /\ treeOutput = NoTree
  /\ FrontendAtRest

Next ==
  \/ \E r \in Reqs, op \in {"like", "unlike"}, kind \in {"post", "comment"},
        subject \in PostIds \cup CommentIds, user \in Users :
       SendLikeRequest(r, op, kind, subject, user)
  \/ \E r \in Reqs : like(r)
  \/ \E r \in Reqs : likeComment(r)
  \/ \E r \in Reqs : unlike(r)
  \/ \E r \in Reqs : unlikeComment(r)

Spec == Init /\ [][Next]_vars

(***************************************************************************)
(* The race of EXPLAINER.md section 4: NRace like calls for one (post,     *)
(* user) pair, all in flight, on a ledger without a row for the pair.      *)
(***************************************************************************)
RaceReqs == 1..NRace
\* every call of the race comes from clients of one user
RaceUser == SessionUser(1)

InitRace ==
  /\ posts = SeedPosts
  /\ comments = SeedComments
  /\ commentLikes = EmptyBag
  /\ now = 0
  /\ leaderboard = <<>>
  /\ lastUpdated = <<>>
  /\ creq = [k \in Creators |-> IdleCreate]
  /\ locks = {}
  /\ treeInput = <<>>
  /\ treeOutput = NoTree
  /\ FrontendAtRest
  /\ req = [r \in RaceReqs |->
       [op |-> "like", kind |-> "post", subject |-> 1, user |-> RaceUser,
        pc |-> "sent", result |-> "none"]]
  \* rows of other users may be there already
  /\ \E others \in SUBSET (Users \ {RaceUser}) :
       postLikes = SetToBag(
         {[post |-> 1, user |-> u, created_at |-> 0] : u \in others})

NextRace ==
  \/ \E r \in RaceReqs : get_object(r)
  \/ \E r \in RaceReqs : like(r)

SpecRace == InitRace /\ [][NextRace]_vars

(***************************************************************************)
(* The leaderboard over given ledgers: two posts of two authors and a      *)
(* comment of the first, liked at any instants up to now.                  *)
(***************************************************************************)
KarmaPosts == {[id |-> 1, author |-> 1], [id |-> 2, author |-> 2]}
KarmaComments ==
  {[id |-> 1, post |-> 1, parent |-> None, author |-> 1, path |-> <<1>>, depth |-> 0]}

InitKarma ==
  /\ posts = KarmaPosts
  /\ comments = KarmaComments
  /\ req = [r \in Reqs |-> IdleReq]
  /\ leaderboard = <<>>
  /\ lastUpdated = <<>>
  /\ creq = [k \in Creators |-> IdleCreate]
  /\ locks = {}
  /\ treeInput = <<>>
  /\ treeOutput = NoTree
  /\ FrontendAtRest
  /\ now \in Times
  /\ \E P \in SUBSET ({p.id : p \in KarmaPosts} \X Users),
        C \in SUBSET ({c.id : c \in KarmaComments} \X Users) :
       /\ Cardinality(P) + Cardinality(C) <= MaxLikes
       /\ \E pt \in [P -> 0..now], ct \in [C -> 0..now] :
            /\ postLikes = SetToBag(
                 {[post |-> x[1], user |-> x[2], created_at |-> pt[x]] : x \in P})
            /\ commentLikes = SetToBag(
                 {[comment |-> x[1], user |-> x[2], created_at |-> ct[x]] : x \in C})

NextKarma ==
  \/ fetchLeaderboard
  \/ Tick

SpecKarma == InitKarma /\ [][NextKarma]_vars

(***************************************************************************)
(* Comment creation on two posts, from an empty Comment table.             *)
(***************************************************************************)
InitTree ==
  /\ posts = KarmaPosts
  /\ comments = {}
  /\ postLikes = EmptyBag
  /\ commentLikes = EmptyBag
  /\ now = 0
  /\ req = [r \in Reqs |-> IdleReq]
  /\ leaderboard = <<>>
  /\ lastUpdated = <<>>
  /\ creq = [k \in Creators |-> IdleCreate]
  /\ locks = {}
  /\ treeInput = <<>>
  /\ treeOutput = NoTree
  /\ FrontendAtRest

NextTree ==
  \/ \E k \in Creators, post \in PostIds, parent \in {None} \cup CommentIds :
       createComment(k, post, parent, SessionUser(k), MaxComments)
  \/ \E k \in Creators : lock_scope(k)
  \/ \E k \in Creators : read_max(k)
  \/ \E k \in Creators : insert_comment(k)
  \/ \E post \in PostIds : loadComments(post)

SpecTree == InitTree /\ [][NextTree]_vars

(***************************************************************************)
(* One client fills the root group of post 1 and replies to its first      *)
(* comment, one request after the other.                                   *)
(***************************************************************************)
NextWide ==
  \/ \E parent \in {None, 1} : createComment(1, 1, parent, SessionUser(1), MaxWide)
  \/ lock_scope(1)
  \/ read_max(1)
  \/ insert_comment(1)

SpecWide == InitTree /\ [][NextWide]_vars

(***************************************************************************)
(* get_comments over any rows: ids 1..MaxSeq, each row with no parent or   *)
(* with the id of another row as parent, which the rows at hand may lack.  *)
(***************************************************************************)
BuildRows == {r \in [id : 1..MaxSeq, parent_id : 0..MaxSeq] : r.parent_id # r.id}
BuildInputs ==
  UNION {{s \in [1..n -> BuildRows] : \A i, j \in 1..n : s[i].id = s[j].id => i = j} :
           n \in 0..MaxSeq}

InitBuild ==
  /\ posts = SeedPosts
  /\ comments = {}
  /\ postLikes = EmptyBag
  /\ commentLikes = EmptyBag
  /\ now = 0
  /\ req = [r \in Reqs |-> IdleReq]
  /\ leaderboard = <<>>
  /\ lastUpdated = <<>>
  /\ creq = [k \in Creators |-> IdleCreate]
  /\ locks = {}
  /\ treeInput \in BuildInputs
  /\ treeOutput = NoTree
  /\ FrontendAtRest

SpecBuild == InitBuild /\ [][build]_vars

(***************************************************************************)
(* The leaderboard when more users have karma than it lists: TopN + 1      *)
(* authors, the first half with a post each, the second half with a        *)
(* comment each and the middle one with both; a post has the like of the   *)
(* first user or none, a comment the likes of the first few users, all     *)
(* inside the window.                                                      *)
(***************************************************************************)
TopPosts == {[id |-> a, author |-> a] : a \in 1..((TopN + 1) \div 2)}
TopComments ==
  {[id |-> a, post |-> 1, parent |-> None, author |-> a,
    path |-> <<a + 1 - ((TopN + 1) \div 2)>>, depth |-> 0] :
     a \in ((TopN + 1) \div 2)..(TopN + 1)}

InitTop ==
  /\ posts = TopPosts
  /\ comments = TopComments
  /\ req = [r \in Reqs |-> IdleReq]
  /\ leaderboard = <<>>
  /\ lastUpdated = <<>>
  /\ creq = [k \in Creators |-> IdleCreate]
  /\ locks = {}
  /\ treeInput = <<>>
  /\ treeOutput = NoTree
  /\ FrontendAtRest
  /\ now = 0
  /\ \E pn \in [{p.id : p \in TopPosts} -> {0, SessionUser(1)}],
        cn \in [{c.id : c \in TopComments} -> 0..NUsers] :
       /\ postLikes = SetToBag(
            {row \in [post : DOMAIN pn, user : Users, created_at : {0}] :
               row.user <= pn[row.post]})
       /\ commentLikes = SetToBag(
            {row \in [comment : DOMAIN cn, user : Users, created_at : {0}] :
               row.user <= cn[row.comment]})

SpecTop == InitTop /\ [][fetchLeaderboard]_vars

(***************************************************************************)
(* Reads between writes: one client toggles likes on the seed post and     *)
(* comment while the leaderboard and the comment tree are requested.  The  *)
(* clock stands at MaxTime; the ledgers may start with likes of the first  *)
(* user from instant 0, which the window no longer covers.                 *)
(***************************************************************************)
InitLive ==
  /\ posts = SeedPosts
  /\ comments = SeedComments
  /\ now = MaxTime
  /\ req = [r \in Reqs |-> IdleReq]
  /\ leaderboard = <<>>
  /\ lastUpdated = <<>>
  /\ creq = [k \in Creators |-> IdleCreate]
  /\ locks = {}
  /\ treeInput = <<>>
  /\ treeOutput = NoTree
  /\ FrontendAtRest
  /\ \E P \in SUBSET {[post |-> 1, user |-> SessionUser(1), created_at |-> 0]},
        C \in SUBSET {[comment |-> 1, user |-> SessionUser(1), created_at |-> 0]} :
       /\ postLikes = SetToBag(P)
       /\ commentLikes = SetToBag(C)

NextLive ==
  \/ \E op \in {"like", "unlike"}, kind \in {"post", "comment"},
        subject \in PostIds \cup CommentIds, user \in Users :
       SendLikeRequest(1, op, kind, subject, user)
  \/ like(1)
  \/ likeComment(1)
  \/ unlike(1)
  \/ unlikeComment(1)
  \/ fetchLeaderboard
  \/ \E post \in PostIds : loadComments(post)

SpecLive == InitLive /\ [][NextLive]_vars

(***************************************************************************)
(* Abandoned operations: one client toggles likes of the seed post and one *)
(* creates comments on it; either may give up an operation at any step.    *)
(***************************************************************************)
NextAbandon ==
  \/ \E op \in {"like", "unlike"}, subject \in PostIds, user \in Users :
       SendLikeRequest(1, op, "post", subject, user)
  \/ like(1)
  \/ unlike(1)
  \/ abandonLike(1)
  \/ \E parent \in {None, 1} :
       createComment(1, 1, parent, SessionUser(1), MaxComments)
  \/ lock_scope(1)
  \/ read_max(1)
  \/ insert_comment(1)
  \/ abandonCreate(1)

SpecAbandon == Init /\ [][NextAbandon]_vars

(***************************************************************************)
(* Contention under fair scheduling: the clients of one user send like and *)
(* unlike calls for the seed post and createComment calls for its roots,   *)
(* which share one allocation scope.  The server runs every request it has *)
(* received: each step of a request is weakly fair.  The table is capped,  *)
(* so the requests that contend for a scope are finitely many.             *)
(***************************************************************************)
NextFair ==
  \/ \E r \in Reqs, op \in {"like", "unlike"} :
       SendLikeRequest(r, op, "post", 1, RaceUser)
  \/ \E r \in Reqs : like(r)
  \/ \E r \in Reqs : unlike(r)
  \/ \E k \in Creators : createComment(k, 1, None, RaceUser, MaxComments)
  \/ \E k \in Creators : lock_scope(k)
  \/ \E k \in Creators : read_max(k)
  \/ \E k \in Creators : insert_comment(k)

Fairness ==
  /\ \A r \in Reqs : WF_vars(like(r)) /\ WF_vars(unlike(r))
  /\ \A k \in Creators :
       WF_vars(lock_scope(k)) /\ WF_vars(read_max(k)) /\ WF_vars(insert_comment(k))

SpecFair == Init /\ [][NextFair]_vars /\ Fairness

(***************************************************************************)
(* Writes side by side: one client toggles likes of the seed post, one     *)
(* creates comments on it, and time passes.                                *)
(***************************************************************************)
NextFrame ==
  \/ \E op \in {"like", "unlike"}, subject \in PostIds, user \in Users :
       SendLikeRequest(1, op, "post", subject, user)
  \/ like(1)
  \/ unlike(1)
  \/ \E parent \in {None, 1} :
       createComment(1, 1, parent, SessionUser(1), MaxComments)
  \/ lock_scope(1)
  \/ read_max(1)
  \/ insert_comment(1)
  \/ Tick

SpecFrame == Init /\ [][NextFrame]_vars

(***************************************************************************)
(* Properties                                                              *)
(***************************************************************************)
PostLikeRows(post, user) ==
  CountRows(postLikes, {row \in DOMAIN postLikes : row.post = post /\ row.user = user})
CommentLikeRows(comment, user) ==
  CountRows(commentLikes,
            {row \in DOMAIN commentLikes : row.comment = comment /\ row.user = user})

\* C1: in every reachable state, whatever like and unlike requests the
\* clients interleave, each ledger holds at most one row per (subject, user).
C1_AtMostOneLikePerPair ==
  /\ \A p \in PostIds, u \in Users : PostLikeRows(p, u) <= 1
  /\ \A c \in CommentIds, u \in Users : CommentLikeRows(c, u) <= 1

\* a like was refused while both users have their row on the post and a
\* further like for the post is in flight
C1_Witness ==
  \E r, q \in Reqs :
    /\ req[r].pc = "done" /\ req[r].result = "AlreadyLiked"
    /\ \A u \in Users : PostLikeRows(1, u) = 1
    /\ req[q].pc = "sent" /\ req[q].op = "like" /\ req[q].kind = "post"

\* the rows of the pair the race is about
RaceRows == PostLikeRows(1, RaceUser)

\* C2: of NRace concurrent like calls for one pair on a ledger without a row
\* for it, exactly one is answered liked and the others AlreadyLiked, and
\* the ledger ends with exactly one row for the pair.
C2_OneWinner ==
  /\ Cardinality({r \in RaceReqs : req[r].result = "liked"}) <= 1
  /\ \A r \in RaceReqs :
       req[r].pc = "done" => req[r].result \in {"liked", "AlreadyLiked"}
  /\ (\A r \in RaceReqs : req[r].pc = "done") =>
       /\ Cardinality({r \in RaceReqs : req[r].result = "liked"}) = 1
       /\ Cardinality({r \in RaceReqs : req[r].result = "AlreadyLiked"}) = NRace - 1
       /\ RaceRows = 1

\* all calls of the race are answered, the last of them refused
C2_Witness ==
  /\ \A r \in RaceReqs : req[r].pc = "done"
  /\ req[NRace].result = "AlreadyLiked"
  /\ req[1].result = "AlreadyLiked"

\* the karma of user u at instant t by the definition of the design: the
\* in-window rows on u's posts and comments, counted and weighted
ExpectedKarma(u, t) ==
    weight_post * Cardinality({row \in DOMAIN postLikes :
        row.created_at >= t - Window /\ post__author(row.post) = u})
  + weight_comment * Cardinality({row \in DOMAIN commentLikes :
        row.created_at >= t - Window /\ comment__author(row.comment) = u})

\* the karma a leaderboard lists for user u, 0 if it does not list u
KarmaIn(board, u) ==
  IF \E i \in DOMAIN board : board[i].id = u
  THEN board[CHOOSE i \in DOMAIN board : board[i].id = u].karma
  ELSE 0

\* C8: the karma the leaderboard reports for a user is weight_post times
\* the in-window likes of the user's posts plus weight_comment times the
\* in-window likes of the user's comments; each user is listed once.
C8_KarmaIsCountTimesWeight ==
  lastUpdated # <<>> =>
    /\ \A i \in DOMAIN leaderboard :
         leaderboard[i].karma = ExpectedKarma(leaderboard[i].id, lastUpdated[1])
    /\ \A i, j \in DOMAIN leaderboard :
         leaderboard[i].id = leaderboard[j].id => i = j

\* a user with two in-window likes on a post and one on a comment is listed
C8_Witness ==
  /\ lastUpdated # <<>>
  /\ \E i \in DOMAIN leaderboard :
       /\ leaderboard[i].karma = 2 * weight_post + weight_comment
       /\ Cardinality({row \in DOMAIN postLikes :
             row.created_at >= lastUpdated[1] - Window
             /\ post__author(row.post) = leaderboard[i].id}) = 2

\* what the row adds to the karma the leaderboard of instant t lists for
\* author a: the listed karma less the karma computed without the row
PostRowAdds(row, t) ==
  LET a == post__author(row.post)
      pk == post_karma(DeleteRows(postLikes, {row}), t)
      ck == comment_karma(commentLikes, t)
  IN KarmaIn(leaderboard, a)
       - ((IF a \in DOMAIN pk THEN pk[a] ELSE 0) + (IF a \in DOMAIN ck THEN ck[a] ELSE 0))
CommentRowAdds(row, t) ==
  LET a == comment__author(row.comment)
      pk == post_karma(postLikes, t)
      ck == comment_karma(DeleteRows(commentLikes, {row}), t)
  IN KarmaIn(leaderboard, a)
       - ((IF a \in DOMAIN pk THEN pk[a] ELSE 0) + (IF a \in DOMAIN ck THEN ck[a] ELSE 0))

\* C9: with cutoff = now - window at the call, a like adds its weight to the
\* leaderboard if and only if its timestamp is at or after the cutoff.
C9_WindowIsInclusive ==
  (lastUpdated # <<>> /\ Len(leaderboard) < TopN) =>
    LET t == lastUpdated[1] IN
    /\ \A row \in DOMAIN postLikes :
         PostRowAdds(row, t) = IF row.created_at >= t - Window THEN weight_post ELSE 0
    /\ \A row \in DOMAIN commentLikes :
         CommentRowAdds(row, t) =
           IF row.created_at >= t - Window THEN weight_comment ELSE 0

\* a leaderboard computed over a like one tick before the cutoff and a like
\* exactly at the cutoff
C9_Witness ==
  /\ lastUpdated # <<>>
  /\ \E r1, r2 \in DOMAIN postLikes :
       /\ r1.created_at = lastUpdated[1] - Window - 1
       /\ r2.created_at = lastUpdated[1] - Window
       /\ post__author(r1.post) = post__author(r2.post)
       /\ KarmaIn(leaderboard, post__author(r1.post)) = weight_post

\* C10: the leaderboard lists users by descending karma, users of equal
\* karma by ascending id.
C10_DescendingThenById ==
  lastUpdated # <<>> =>
    \A i, j \in DOMAIN leaderboard :
      i < j => \/ leaderboard[i].karma > leaderboard[j].karma
               \/ /\ leaderboard[i].karma = leaderboard[j].karma
                  /\ leaderboard[i].id < leaderboard[j].id

\* the request is inside the exclusive section of its scope
Allocating(k) == creq[k].pc \in {"locked", "read"}

\* C3: concurrent createComment requests under one parent (or at the root
\* of one post) run read-max/compute-next/insert one at a time, and all
\* comment paths of a post are pairwise distinct.
C3_DistinctPaths ==
  /\ \A k1, k2 \in Creators :
       (k1 # k2 /\ Allocating(k1) /\ Allocating(k2)) =>
         <<creq[k1].post, creq[k1].parent>> # <<creq[k2].post, creq[k2].parent>>
  /\ \A c, d \in comments : (c.post = d.post /\ c.id # d.id) => c.path # d.path

\* a request waits for the scope another request allocates in, with a
\* sibling already in the table
C3_Witness ==
  \E k1, k2 \in Creators :
    /\ creq[k1].pc = "read" /\ creq[k2].pc = "sent"
    /\ creq[k1].post = creq[k2].post /\ creq[k1].parent = creq[k2].parent
    /\ Siblings(creq[k1].post, creq[k1].parent) # {}

\* C4: a reply's path is its parent's path with exactly one segment
\* appended, a root's path has one segment, and the stored depth of every
\* comment is the length of its path minus one.
C4_PathExtendsParent ==
  \A c \in comments :
    /\ c.depth = Len(c.path) - 1
    /\ c.parent = None => Len(c.path) = 1
    /\ c.parent # None =>
         \E q \in comments :
           /\ q.id = c.parent /\ q.post = c.post
           /\ Len(c.path) = Len(q.path) + 1
           /\ SubSeq(c.path, 1, Len(q.path)) = q.path

\* a reply to a reply is in the table
C4_Witness ==
  \E c, q \in comments : c.parent = q.id /\ q.parent # None /\ c.depth = 2

\* e is c or a reply below c
Below(e, c) ==
  /\ e.post = c.post
  /\ Len(e.path) >= Len(c.path)
  /\ SubSeq(e.path, 1, Len(c.path)) = c.path

\* C5: the comments of a post ordered ascending by path are in depth-first
\* creation order: a comment after its parent, and a comment with all its
\* replies before every sibling created later.
C5_PathOrderIsCreationOrder ==
  \A post \in PostIds :
    LET rows == order_by_path(CommentsOf(post))
        Place == [c \in CommentsOf(post) |-> CHOOSE i \in DOMAIN rows : rows[i] = c]
    IN \A c, d \in CommentsOf(post) :
         /\ d.parent = c.id => Place[c] < Place[d]
         /\ (c.parent = d.parent /\ c.id < d.id) =>
              \A e \in CommentsOf(post) : Below(e, c) => Place[e] < Place[d]

\* C6: the rendering of the forest get_comments returns for the rows of a
\* post ordered by path (roots in list order, each comment followed by its
\* replies) lists the comments in the order of the rows.
C6_RenderingKeepsOrder ==
  (treeOutput.status # "none") =>
    /\ treeOutput.status = "ok"
    /\ CommentList(treeOutput.root_comments, treeOutput.replies)
         = [i \in DOMAIN treeInput |-> treeInput[i].id]

\* a forest of a root with a reply and of a second root
C6_Witness ==
  /\ treeOutput.status = "ok"
  /\ Len(treeInput) = 3
  /\ Len(treeOutput.root_comments) = 2
  /\ treeOutput.replies[treeOutput.root_comments[1]] # <<>>

\* the rows hold a comment whose parent is none of them
HasOrphan(rows) ==
  \E i \in DOMAIN rows :
    /\ rows[i].parent_id # None
    /\ \A j \in DOMAIN rows : rows[j].id # rows[i].parent_id

\* C7: when a row's parent is none of the rows, get_comments raises (the
\* KeyError is its OrphanReference signal) and returns no forest.
C7_OrphanIsSignalled ==
  (treeOutput.status # "none" /\ HasOrphan(treeInput)) =>
    /\ treeOutput.status = "KeyError"
    /\ treeOutput.root_comments = <<>>

\* get_comments has raised on rows whose second row is the orphan
C7_Witness ==
  /\ treeOutput.status = "KeyError"
  /\ Len(treeInput) = 2
  /\ treeInput[1].parent_id = None
  /\ treeInput[2].parent_id \notin {None, treeInput[1].id}

\* the users with karma at instant t: the authors of a liked post or comment
Ranked(t) ==
  {u \in {p.author : p \in posts} \cup {c.author : c \in comments} :
     ExpectedKarma(u, t) > 0}

\* the users a leaderboard lists
Listed(board) == {board[i].id : i \in DOMAIN board}

\* C11: the leaderboard has at most TopN entries and is the head of the full
\* ranking: it lists TopN users, or all users with karma when they are
\* fewer, and no user it leaves out has more karma than a user it lists.
C11_TopNAfterRanking ==
  lastUpdated # <<>> =>
    LET t == lastUpdated[1] IN
    /\ Len(leaderboard) <= TopN
    /\ Len(leaderboard) = Min(TopN, Cardinality(Ranked(t)))
    /\ Listed(leaderboard) \subseteq Ranked(t)
    /\ \A u \in Ranked(t) \ Listed(leaderboard), v \in Listed(leaderboard) :
         ExpectedKarma(u, t) <= ExpectedKarma(v, t)

\* TopN users are listed and one with karma is left out, who has more
\* comment likes than a listed user has likes at all
C11_Witness ==
  /\ lastUpdated # <<>>
  /\ Len(leaderboard) = TopN
  /\ \E u \in Ranked(lastUpdated[1]) \ Listed(leaderboard), v \in Listed(leaderboard) :
       /\ ExpectedKarma(u, lastUpdated[1]) = 2 * weight_comment
       /\ ExpectedKarma(v, lastUpdated[1]) = weight_post

\* C12: no entry of a leaderboard result has karma 0, and (below the limit
\* of TopN entries) the result lists exactly the users with an in-window
\* like on a post or comment of theirs in the ledgers as they are at the
\* call, so a like taken back by unlike does not count.
C12_NoZeroKarma ==
  [][(leaderboard' # leaderboard \/ lastUpdated' # lastUpdated) =>
       /\ \A i \in DOMAIN leaderboard' : leaderboard'[i].karma > 0
       /\ Len(leaderboard') < TopN => Listed(leaderboard') = Ranked(now)]_vars

\* a leaderboard of this instant that lists the comment's author alone, over
\* ledgers in which the post's only like is outside the window and a like
\* has been taken back
C12_Witness ==
  /\ lastUpdated = <<now>>
  /\ Listed(leaderboard) = {comment__author(1)}
  /\ \E row \in DOMAIN postLikes : row.created_at < now - Window
  /\ \A row \in DOMAIN postLikes : row.created_at < now - Window
  /\ req[1].pc = "done" /\ req[1].result = "unliked"
  /\ Ranked(now) = {comment__author(1)}

\* the rows a ledger holds for the pair of request r
RowsOfRequest(r) ==
  IF req[r].kind = "post" THEN PostLikeRows(req[r].subject, req[r].user)
  ELSE CommentLikeRows(req[r].subject, req[r].user)

\* request r of kind op is answered in this step
Answered(r, op) ==
  /\ req[r].pc \in {"sent", "found"} /\ req[r].op = op
  /\ req'[r].pc = "done"

\* C13: a like call made while the ledger holds a row for its pair is
\* answered AlreadyLiked and leaves both ledgers as they are, with exactly
\* one row for the pair.
C13_SecondLikeRefused ==
  [][\A r \in Reqs :
       (Answered(r, "like") /\ RowsOfRequest(r) >= 1) =>
          /\ req'[r].result = "AlreadyLiked"
          /\ postLikes' = postLikes /\ commentLikes' = commentLikes
          /\ RowsOfRequest(r) = 1]_vars

\* like then like again: one call answered liked, the other AlreadyLiked,
\* and the one row of the pair is all the post ledger holds
C13_Witness ==
  /\ \E r, q \in Reqs : req[r].result = "AlreadyLiked" /\ req[q].result = "liked"
  /\ \E u \in Users : postLikes = SetToBag({[post |-> 1, user |-> u, created_at |-> now]})
  /\ commentLikes = EmptyBag

\* C14: an unlike call made while the ledger holds no row for its pair is
\* answered NotLiked and leaves both ledgers as they are; one made while the
\* row is there removes that row, no other, and is answered unliked.
C14_UnlikeReportsNotLiked ==
  [][\A r \in Reqs :
       Answered(r, "unlike") =>
         IF RowsOfRequest(r) = 0
         THEN /\ req'[r].result = "NotLiked"
              /\ postLikes' = postLikes /\ commentLikes' = commentLikes
         ELSE /\ req'[r].result = "unliked"
              /\ RowsOfRequest(r) = 1
              /\ IF req[r].kind = "post"
                 THEN /\ postLikes' = DeleteRows(postLikes,
                            {row \in DOMAIN postLikes :
                               row.post = req[r].subject /\ row.user = req[r].user})
                      /\ commentLikes' = commentLikes
                 ELSE /\ commentLikes' = DeleteRows(commentLikes,
                            {row \in DOMAIN commentLikes :
                               row.comment = req[r].subject /\ row.user = req[r].user})
                      /\ postLikes' = postLikes]_vars

\* unlike then unlike again: one call answered unliked, the other NotLiked,
\* over ledgers that still hold the like of another user
C14_Witness ==
  /\ \E r, q \in Reqs : req[r].result = "NotLiked" /\ req[q].result = "unliked"
  /\ BagCardinality(postLikes) + BagCardinality(commentLikes) = 1

\* every stored row is whole: a comment has its path and the depth of that
\* path, a ledger row its subject, user and instant, once
StoredRowsWhole ==
  /\ \A c \in comments : Len(c.path) >= 1 /\ c.depth = Len(c.path) - 1
  /\ \A row \in DOMAIN postLikes :
       DOMAIN row = {"post", "user", "created_at"} /\ postLikes[row] = 1
  /\ \A row \in DOMAIN commentLikes :
       DOMAIN row = {"comment", "user", "created_at"} /\ commentLikes[row] = 1

\* a request ends in this step without having completed
EndsFailed ==
  \/ \E r \in Reqs : req[r].pc \in {"sent", "found"} /\ req'[r].result = "failed"
  \/ \E k \in Creators : creq[k].pc \in {"sent", "locked", "read"}
                           /\ creq'[k].pc = "failed"

\* C15: an operation abandoned before it completes leaves the tables and the
\* ledgers as they were before it began, and every stored row is whole.
C15_AbandonLeavesNothing ==
  /\ []StoredRowsWhole
  /\ [][EndsFailed => UNCHANGED <<posts, comments, postLikes, commentLikes>>]_vars

\* a createComment abandoned after its read of the maximum and a like
\* abandoned in flight, over a table and a ledger that hold earlier rows
C15_Witness ==
  /\ creq[1].pc = "failed"
  /\ req[1].pc = "done" /\ req[1].result = "failed"
  /\ Cardinality(comments) = MaxComments - 1
  /\ locks = {}
  /\ postLikes # EmptyBag

Occurrences(seq, x) == Cardinality({i \in DOMAIN seq : seq[i] = x})

\* how often comment x is placed in the forest: in the root list and in the
\* reply lists of all nodes
Placements(forest, x) ==
  Occurrences(forest.root_comments, x)
    + SumOver([n \in DOMAIN forest.replies |-> Occurrences(forest.replies[n], x)],
              DOMAIN forest.replies)

\* C17: a forest built by get_comments holds each comment of its input
\* exactly once, in the reply list of its parent when it has one and in the
\* root list when it has none; it has as many nodes as the input has
\* comments, and the empty input gives the empty forest.
C17_EachCommentPlacedOnce ==
  treeOutput.status = "ok" =>
    /\ DOMAIN treeOutput.replies = {treeInput[i].id : i \in DOMAIN treeInput}
    /\ Cardinality(DOMAIN treeOutput.replies) = Len(treeInput)
    /\ \A i \in DOMAIN treeInput :
         LET c == treeInput[i] IN
         /\ Placements(treeOutput, c.id) = 1
         /\ IF c.parent_id = None
            THEN Occurrences(treeOutput.root_comments, c.id) = 1
            ELSE Occurrences(treeOutput.replies[c.parent_id], c.id) = 1
    /\ treeInput = <<>> => treeOutput.root_comments = <<>>

\* a forest of MaxSeq comments with a root, a reply and a reply to the reply
C17_Witness ==
  /\ treeOutput.status = "ok"
  /\ Len(treeInput) = MaxSeq
  /\ \E i, j \in DOMAIN treeInput :
       /\ treeInput[i].parent_id # None
       /\ treeInput[j].parent_id = treeInput[i].id

\* the last segment of a comment's path
LastSegment(c) == c.path[Len(c.path)]

\* C18: in every sibling group (the replies of one comment, or the roots of
\* one post) the first comment created has last segment 1 and each later
\* one a last segment one greater than the maximum before it: the last
\* segments are 1, 2, ... in creation order, strictly increasing, none twice.
C18_SegmentsCountUp ==
  \A c \in comments :
    LET earlier == {d \in Siblings(c.post, c.parent) : d.id < c.id}
    IN /\ LastSegment(c) =
            (IF earlier = {} THEN 0 ELSE Max({LastSegment(d) : d \in earlier})) + 1
       /\ \A d \in earlier : LastSegment(d) < LastSegment(c)

\* two siblings with last segments 1 and 2, and a request for their group
\* that has read the maximum 2
C18_Witness ==
  \E d, e \in comments, k \in Creators :
    /\ d.post = e.post /\ d.parent = e.parent
    /\ LastSegment(d) = 1 /\ LastSegment(e) = 2
    /\ creq[k].pc = "read" /\ creq[k].seen = 2
    /\ creq[k].post = d.post /\ creq[k].parent = d.parent

\* every comment row of this state is in the next state as it is, and no
\* other row of the next state has its id
CommentsKept ==
  \A c \in comments :
    /\ c \in comments'
    /\ \A d \in comments' : d.id = c.id => d = c

\* the post ledger changes in this step at most by the row of (post, user):
\* every other row is kept as it is, and a row of the pair that is in both
\* states is the same row
PostLedgerChangesOnlyAt(post, user) ==
  /\ \A row \in DOMAIN postLikes \cup DOMAIN postLikes' :
       (row.post # post \/ row.user # user) =>
          /\ row \in DOMAIN postLikes /\ row \in DOMAIN postLikes'
          /\ postLikes'[row] = postLikes[row]
  /\ \A row \in DOMAIN postLikes, new \in DOMAIN postLikes' :
       (row.post = new.post /\ row.user = new.user) => new = row

\* C19: a comment's row (path, depth, parent, post) is never changed once
\* it is created, whatever is created or liked later; a like or unlike
\* changes at most the ledger row of its own pair, and no row of a ledger is
\* changed in place.
C19_RowsAreNeverRewritten ==
  [][/\ CommentsKept
     /\ commentLikes' = commentLikes
     /\ IF \E r \in Reqs : Answered(r, "like") \/ Answered(r, "unlike")
        THEN \A r \in Reqs :
               (Answered(r, "like") \/ Answered(r, "unlike")) =>
                  PostLedgerChangesOnlyAt(req[r].subject, req[r].user)
        ELSE postLikes' = postLikes]_vars

\* a like refused at a later instant than the row it met, beside the row of
\* another user and a comment table filled after the seed comment
C19_Witness ==
  /\ req[1].pc = "done" /\ req[1].result = "AlreadyLiked"
  /\ Cardinality(DOMAIN postLikes) = NUsers
  /\ \A row \in DOMAIN postLikes : row.created_at < now
  /\ Cardinality(comments) = MaxComments

\* board is the leaderboard of the ledgers and the clock as they are: it
\* lists the users with karma, each with the karma of this instant (fewer
\* than TopN users have karma where this is used)
IsCurrent(board) ==
  /\ Listed(board) = Ranked(now)
  /\ \A u \in Listed(board) : KarmaIn(board, u) = ExpectedKarma(u, now)

\* C20: a leaderboard request and a comment-tree request leave the posts,
\* the comments and both ledgers as they are; the leaderboard is computed
\* from the ledgers at every call: in every state, also after a like or an
\* unlike, what a call is answered is the leaderboard of the ledgers as
\* they are, and that is what the component then shows.
C20_ReadsComputeAfresh ==
  /\ [](\A data \in get : IsCurrent(data))
  /\ [][(leaderboard' # leaderboard \/ lastUpdated' # lastUpdated
          \/ treeInput' # treeInput \/ treeOutput' # treeOutput) =>
          /\ UNCHANGED <<posts, comments, postLikes, commentLikes>>
          /\ (leaderboard' # leaderboard \/ lastUpdated' # lastUpdated)
               => (lastUpdated' = <<now>> /\ IsCurrent(leaderboard'))]_vars

\* the leaderboard shows the karma of two fresh likes of the post, the last
\* answered like is one of them, and the comment tree has been read
C20_Witness ==
  /\ lastUpdated = <<now>> /\ IsCurrent(leaderboard)
  /\ KarmaIn(leaderboard, post__author(1)) = 2 * weight_post
  /\ req[1].pc = "done" /\ req[1].result = "liked"
  /\ treeOutput.status = "ok"

(***************************************************************************)
(* The like button of Post and CommentItem (Feed.jsx)                      *)
(***************************************************************************)
\* is_liked of the serializers: whether the ledger holds the viewer's like
is_liked(kind, subject, viewer) ==
  /\ viewer # None
  /\ IF kind = "post"
     THEN \E row \in DOMAIN postLikes : row.post = subject /\ row.user = viewer
     ELSE \E row \in DOMAIN commentLikes : row.comment = subject /\ row.user = viewer

\* like_count of the serializers: the rows the ledger holds for the subject
like_count(kind, subject) ==
  IF kind = "post"
  THEN CountRows(postLikes, {row \in DOMAIN postLikes : row.post = subject})
  ELSE CountRows(commentLikes, {row \in DOMAIN commentLikes : row.comment = subject})

\* useState(initialPost.is_liked), useState(initialPost.like_count), and the
\* same of a comment: the component as first rendered from server data
mountWidget(kind, subject) ==
  [kind |-> kind, subject |-> subject,
   isLiked |-> is_liked(kind, subject, currentUser),
   likeCount |-> like_count(kind, subject)]

\* the slots whose answer a handleLike call is waiting for
PendingSlots == {call.slot : call \in pending}

\* handleLike up to its await: nothing when no user is signed in, else
\* unlikePost / unlikeComment when the rendered isLiked is true and likePost
\* / likeComment when it is false.  The call keeps the isLiked it was
\* rendered with.
handleLike(r) ==
  /\ currentUser # None
  /\ widget.likeCount \in (1 - MaxShown)..(MaxShown - 1)
  /\ req[r].pc \in {"idle", "done"}
  /\ r \notin PendingSlots
  /\ req' = [req EXCEPT ![r] =
       [op |-> IF widget.isLiked THEN "unlike" ELSE "like",
        kind |-> widget.kind, subject |-> widget.subject, user |-> currentUser,
        pc |-> "sent", result |-> "none"]]
  /\ pending' = pending \cup {[slot |-> r, isLiked |-> widget.isLiked]}
  /\ UNCHANGED <<tableVars, ledgerVars, now, boardVars, createVars, treeVars,
                 authVars, widget, feedVars, formVars>>

\* fetchAPI: a response that is not ok is thrown as an Error; the views
\* answer 400 for 'Already liked' and 'Not liked'
response_ok(result) == result \in {"liked", "unliked"}

\* handleLike after its await: setLikeCount(c => c - 1) or (c => c + 1) by
\* the isLiked of the call, then setIsLiked(!isLiked) with the isLiked of the
\* call; the catch block changes nothing
handleLikeReturn(r) ==
  /\ req[r].pc = "done"
  /\ \E call \in pending :
       /\ call.slot = r
       /\ pending' = pending \ {call}
       /\ widget' =
            IF response_ok(req[r].result)
            THEN [widget EXCEPT
                    !.likeCount = IF call.isLiked THEN @ - 1 ELSE @ + 1,
                    !.isLiked = ~call.isLiked]
            ELSE widget
  /\ UNCHANGED <<tableVars, ledgerVars, now, req, boardVars, createVars, treeVars,
                 authVars, feedVars, formVars>>

\* a like or unlike request for the subject of the component that comes
\* from elsewhere: another session of the same user, or another user
otherSession(r, op, viewer) ==
  /\ r \notin PendingSlots
  /\ SendLikeRequest(r, op, widget.kind, widget.subject, viewer)

(***************************************************************************)
(* One Post or CommentItem on the page, rendered from server data for the  *)
(* visitor (signed in or not), on a ledger that may hold the like of       *)
(* another user.                                                           *)
(***************************************************************************)
InitWidget ==
  /\ posts = SeedPosts
  /\ comments = SeedComments
  /\ \E others \in SUBSET {NUsers} :
       /\ postLikes = SetToBag({[post |-> 1, user |-> u, created_at |-> 0] : u \in others})
       /\ commentLikes =
            SetToBag({[comment |-> 1, user |-> u, created_at |-> 0] : u \in others})
  /\ now = 0
  /\ req = [r \in Reqs |-> IdleReq]
  /\ leaderboard = <<>>
  /\ lastUpdated = <<>>
  /\ creq = [k \in Creators |-> IdleCreate]
  /\ locks = {}
  /\ treeInput = <<>>
  /\ treeOutput = NoTree
  /\ currentUser \in {None, RaceUser}
  /\ authLoading = FALSE
  /\ authCalls = [a \in AuthSlots |-> IdleAuth]
  /\ \E kind \in {"post", "comment"} : widget = mountWidget(kind, 1)
  /\ pending = {}
  /\ feed = NewFeed
  /\ fetches = <<>>
  /\ forms = [f \in FormIds |-> NewForm]
  /\ postView = NewPostView

NextWidget ==
  \/ \E r \in Reqs : handleLike(r)
  \/ \E r \in Reqs : handleLikeReturn(r)
  \/ \E r \in Reqs, op \in {"like", "unlike"} : otherSession(r, op, RaceUser)
  \/ \E r \in Reqs : like(r)
  \/ \E r \in Reqs : likeComment(r)
  \/ \E r \in Reqs : unlike(r)
  \/ \E r \in Reqs : unlikeComment(r)
  \/ \E r \in Reqs : abandonLike(r)

SpecWidget == InitWidget /\ [][NextWidget]_vars

(***************************************************************************)
(* Properties of the like button                                           *)
(***************************************************************************)
\* the handleLike calls that return in a step, and those that start in it
Returning == pending \ pending'
Starting == pending' \ pending

\* C21: when the request of a handleLike call fails (AlreadyLiked and
\* NotLiked included) the component's isLiked and likeCount are left as they
\* were; when it succeeds isLiked is flipped and likeCount changes by one,
\* up for a like and down for an unlike; and no request is issued while
\* nobody is signed in.
C21_LikeOutcomeApplied ==
  [][/\ \A call \in Returning :
          LET result == req[call.slot].result IN
          IF response_ok(result)
          THEN /\ widget'.isLiked = ~widget.isLiked
               /\ widget'.likeCount =
                    widget.likeCount + (IF result = "liked" THEN 1 ELSE -1)
          ELSE widget' = widget
     /\ Starting # {} => currentUser # None]_vars

\* C22: for a signed-in user, whenever no like or unlike request of the
\* component is in flight, its isLiked says whether the ledger holds the like of the signed-in user
\* for the subject and its likeCount is the number of rows the ledger holds
\* for the subject, also after several handleLike calls that overlapped and
\* after the same user toggled the like from a second session.
C22_WidgetMatchesLedger ==
  (currentUser # None /\ pending = {}) =>
    /\ widget.isLiked = is_liked(widget.kind, widget.subject, currentUser)
    /\ widget.likeCount = like_count(widget.kind, widget.subject)

(***************************************************************************)
(* The comment forms of Post and CommentItem (Feed.jsx)                    *)
(***************************************************************************)
\* the texts typed into a form, as character codes: '', ' ', 'a', 'a '
Contents == {<<>>, <<32>>, <<97>>, <<97, 32>>}

\* white space of String.prototype.trim: tab, line feed, carriage return, space
IsSpace(ch) == ch \in {9, 10, 13, 32}

RECURSIVE trimStart(_)
RECURSIVE trimEnd(_)
trimStart(t) == IF t # <<>> /\ IsSpace(Head(t)) THEN trimStart(Tail(t)) ELSE t
trimEnd(t) ==
  IF t # <<>> /\ IsSpace(t[Len(t)]) THEN trimEnd(SubSeq(t, 1, Len(t) - 1)) ELSE t
\* content.trim()
trim(t) == trimEnd(trimStart(t))

\* the post whose comments the page shows
ShownPost == 1

\* what getPost(post.id) answers now: fullPost.comments
fullPost_comments == get_comments(
  LET rows == order_by_path(CommentsOf(ShownPost))
  IN [i \in DOMAIN rows |-> serialize(rows[i])])

\* the comments for which a CommentItem is mounted
RenderedIds ==
  IF postView.showComments /\ treeOutput.status = "ok"
  THEN DOMAIN treeOutput.replies ELSE {}

RECURSIVE render_depth(_, _)
\* the depth prop of the CommentItem of comment id: CommentList renders its
\* comments with depth={0}, a CommentItem its replies with depth={depth + 1}
render_depth(tree, id) ==
  IF \E i \in DOMAIN tree.root_comments : tree.root_comments[i] = id THEN 0
  ELSE LET parent == CHOOSE p \in DOMAIN tree.replies :
                       \E i \in DOMAIN tree.replies[p] : tree.replies[p][i] = id
       IN render_depth(tree, parent) + 1

\* Mutation of ReplyOffered: the Reply button is rendered up to depth 5.
ReplyOffered_upto_limit(id) ==
  /\ currentUser # None
  /\ render_depth(treeOutput, id) <= ReplyDepthLimit

\* user && depth < 5 && <button>Reply</button>
ReplyOffered(id) ==
  /\ currentUser # None
  /\ render_depth(treeOutput, id) < ReplyDepthLimit

\* the form is on the page: Post's form under showComments && user, the
\* reply form of a mounted CommentItem under isReplying
FormShown(f) ==
  IF f = 0 THEN postView.showComments /\ currentUser # None
  ELSE f \in RenderedIds /\ forms[f].isReplying

\* the createComment requests whose answer the page still waits for
OwnedSlots == {forms[f].call : f \in FormIds} \cup postView.detached

\* Post.loadComments: hide the comments when they are shown (the
\* CommentItems are unmounted, the requests of their handleReply calls go
\* on), else getPost, setComments, setShowComments(true); when getPost fails
\* nothing changes
loadCommentsClick ==
  /\ IF postView.showComments
     THEN /\ postView' =
               [postView EXCEPT
                  !.showComments = FALSE,
                  !.detached = @ \cup ({forms[f].call : f \in FormIds \ {0}} \ {None})]
          /\ forms' = [f \in FormIds |-> IF f = 0 THEN forms[0] ELSE NewForm]
          /\ UNCHANGED treeVars
     ELSE /\ fullPost_comments.status = "ok"
          /\ treeInput' = LET rows == order_by_path(CommentsOf(ShownPost))
                          IN [i \in DOMAIN rows |-> serialize(rows[i])]
          /\ treeOutput' = fullPost_comments
          /\ postView' = [postView EXCEPT !.showComments = TRUE]
          /\ forms' = forms
  /\ UNCHANGED <<tableVars, ledgerVars, now, req, boardVars, createVars,
                 authVars, widgetVars, feedVars>>

\* onClick of the Reply button: setIsReplying(!isReplying).  The visitor
\* has one reply form open at a time.
clickReply(id) ==
  /\ id \in RenderedIds
  /\ ReplyOffered(id)
  /\ \A f \in FormIds \ {id} : ~forms[f].isReplying
  /\ forms' = [forms EXCEPT ![id].isReplying = ~@]
  /\ UNCHANGED <<tableVars, ledgerVars, now, req, boardVars, createVars, treeVars,
                 authVars, widgetVars, feedVars, postView>>

\* onClick of Cancel: setIsReplying(false), setReplyContent('')
cancelReply(id) ==
  /\ id # 0
  /\ FormShown(id)
  /\ forms' = [forms EXCEPT ![id].isReplying = FALSE, ![id].content = <<>>]
  /\ UNCHANGED <<tableVars, ledgerVars, now, req, boardVars, createVars, treeVars,
                 authVars, widgetVars, feedVars, postView>>

\* onChange of the textarea: setReplyContent / setNewComment
typeContent(f, text) ==
  /\ FormShown(f)
  /\ text # forms[f].content
  /\ forms' = [forms EXCEPT ![f].content = text]
  /\ UNCHANGED <<tableVars, ledgerVars, now, req, boardVars, createVars, treeVars,
                 authVars, widgetVars, feedVars, postView>>

\* Mutation of MaySubmit: the isSubmitting flag is not looked at.
MaySubmit_whatever_flag(content, isSubmitting) == trim(content) # <<>>

\* if (!content.trim() || isSubmitting) return
MaySubmit(content, isSubmitting) == trim(content) # <<>> /\ ~isSubmitting

\* the start of a submit handler of form f, up to its first await:
\* setIsSubmitting(true) and createComment(postId, content.trim(), parent)
\* with the comment of the CommentItem as parent, null for Post's form.
\* cap bounds the rows of the table.
submitComment(f, k, cap) ==
  /\ FormShown(f)
  /\ MaySubmit(forms[f].content, forms[f].isSubmitting)
  /\ k \notin OwnedSlots
  /\ postComment(k, ShownPost, f, currentUser, cap)
  /\ forms' = [forms EXCEPT ![f].isSubmitting = TRUE, ![f].call = k,
                            ![f].pc = "creating"]
  /\ UNCHANGED <<tableVars, ledgerVars, now, req, boardVars, locks, treeVars,
                 authVars, widgetVars, feedVars, postView>>

\* CommentItem.handleReply
handleReply(id, k, cap) == id # 0 /\ submitComment(id, k, cap)

\* Post.handleSubmitComment
handleSubmitComment(k, cap) == submitComment(0, k, cap)

\* the request of slot k has been answered: with the new comment, or with
\* an error
Created(k) == creq[k].pc = "idle"
Answered_create(k) == creq[k].pc \in {"idle", "failed"}

\* Mutation of handleReplyReturn: isSubmitting is cleared in the try block,
\* so an error leaves it set.
handleReplyReturn_no_finally(id) ==
  /\ id # 0
  /\ forms[id].pc = "creating"
  /\ Answered_create(forms[id].call)
  /\ IF Created(forms[id].call)
     THEN /\ forms' = [forms EXCEPT ![id] = NewForm]
          /\ postView' = [postView EXCEPT !.reloads = @ + 1]
     ELSE /\ forms' = [forms EXCEPT ![id].call = None, ![id].pc = "idle"]
          /\ postView' = postView
  /\ UNCHANGED <<tableVars, ledgerVars, now, req, boardVars, createVars, treeVars,
                 authVars, widgetVars, feedVars>>

\* CommentItem.handleReply after its await: setReplyContent(''),
\* setIsReplying(false) and onCommentAdded(newComment), which is Post's
\* handleCommentAdded and requests getPost; on an error setError; finally
\* setIsSubmitting(false)
handleReplyReturn(id) ==
  /\ id # 0
  /\ forms[id].pc = "creating"
  /\ Answered_create(forms[id].call)
  /\ IF Created(forms[id].call)
     THEN /\ forms' = [forms EXCEPT ![id] = NewForm]
          /\ postView' = [postView EXCEPT !.reloads = @ + 1]
     ELSE /\ forms' = [forms EXCEPT ![id].isSubmitting = FALSE, ![id].call = None,
                                    ![id].pc = "idle"]
          /\ postView' = postView
  /\ UNCHANGED <<tableVars, ledgerVars, now, req, boardVars, createVars, treeVars,
                 authVars, widgetVars, feedVars>>

\* handleReply of a CommentItem that was unmounted while it waited: its
\* state is gone, onCommentAdded(newComment) is still called
detachedReturn(k) ==
  /\ k \in postView.detached
  /\ Answered_create(k)
  /\ postView' = [postView EXCEPT !.detached = @ \ {k},
                                  !.reloads = IF Created(k) THEN @ + 1 ELSE @]
  /\ UNCHANGED <<tableVars, ledgerVars, now, req, boardVars, createVars, treeVars,
                 authVars, widgetVars, feedVars, forms>>

\* Post.handleCommentAdded after its await: setComments(fullPost.comments)
handleCommentAdded ==
  /\ postView.reloads > 0
  /\ fullPost_comments.status = "ok"
  /\ treeInput' = LET rows == order_by_path(CommentsOf(ShownPost))
                  IN [i \in DOMAIN rows |-> serialize(rows[i])]
  /\ treeOutput' = fullPost_comments
  /\ postView' = [postView EXCEPT !.reloads = @ - 1]
  /\ UNCHANGED <<tableVars, ledgerVars, now, req, boardVars, createVars,
                 authVars, widgetVars, feedVars, forms>>

\* Post.handleSubmitComment after createComment: setNewComment('') and
\* getPost; on an error setError and, finally, setIsSubmittingComment(false)
handleSubmitCommentCreated ==
  /\ forms[0].pc = "creating"
  /\ Answered_create(forms[0].call)
  /\ forms' =
       IF Created(forms[0].call)
       THEN [forms EXCEPT ![0].content = <<>>, ![0].call = None, ![0].pc = "reloading"]
       ELSE [forms EXCEPT ![0].isSubmitting = FALSE, ![0].call = None, ![0].pc = "idle"]
  /\ UNCHANGED <<tableVars, ledgerVars, now, req, boardVars, createVars, treeVars,
                 authVars, widgetVars, feedVars, postView>>

\* Post.handleSubmitComment after getPost: setComments(fullPost.comments),
\* or the error; finally setIsSubmittingComment(false)
handleSubmitCommentReturn(ok) ==
  /\ forms[0].pc = "reloading"
  /\ IF ok /\ fullPost_comments.status = "ok"
     THEN /\ treeInput' = LET rows == order_by_path(CommentsOf(ShownPost))
                          IN [i \in DOMAIN rows |-> serialize(rows[i])]
          /\ treeOutput' = fullPost_comments
     ELSE UNCHANGED treeVars
  /\ forms' = [forms EXCEPT ![0].isSubmitting = FALSE, ![0].pc = "idle"]
  /\ UNCHANGED <<tableVars, ledgerVars, now, req, boardVars, createVars,
                 authVars, widgetVars, feedVars, postView>>

(***************************************************************************)
(* The comments of a post on the page: the post has a chain of comments    *)
(* down to the last depth at which a reply is offered; the visitor (signed *)
(* in or not) shows and hides the comments, opens a reply form, types a    *)
(* one-letter text and submits or cancels, until the Comment table holds   *)
(* MaxThread rows.  The requests go through one slot.                      *)
(***************************************************************************)
ThreadComments ==
  {[id |-> i, post |-> ShownPost, parent |-> i - 1, author |-> NUsers,
    path |-> [j \in 1..i |-> 1], depth |-> i - 1] : i \in 1..ReplyDepthLimit}

InitThread ==
  /\ posts = SeedPosts
  /\ comments = ThreadComments
  /\ postLikes = EmptyBag
  /\ commentLikes = EmptyBag
  /\ now = 0
  /\ req = [r \in Reqs |-> IdleReq]
  /\ leaderboard = <<>>
  /\ lastUpdated = <<>>
  /\ creq = [k \in Creators |-> IdleCreate]
  /\ locks = {}
  /\ treeInput = <<>>
  /\ treeOutput = NoTree
  /\ currentUser \in {None, RaceUser}
  /\ authLoading = FALSE
  /\ authCalls = [a \in AuthSlots |-> IdleAuth]
  /\ widget = NoWidget
  /\ pending = {}
  /\ feed = NewFeed
  /\ fetches = <<>>
  /\ forms = [f \in FormIds |-> NewForm]
  /\ postView = NewPostView

NextThread ==
  \/ loadCommentsClick
  \/ \E id \in FormIds : ~forms[id].isReplying /\ clickReply(id)
  \/ \E id \in FormIds : cancelReply(id)
  \/ \E id \in FormIds \ {0} : typeContent(id, <<97>>)
  \/ \E id \in FormIds : handleReply(id, 1, MaxThread)
  \/ lock_scope(1)
  \/ read_max(1)
  \/ insert_comment(1)
  \/ abandonCreate(1)
  \/ \E id \in FormIds : handleReplyReturn(id)
  \/ detachedReturn(1)
  \/ handleCommentAdded

SpecThread == InitThread /\ [][NextThread]_vars

(***************************************************************************)
(* Properties of the Reply action                                          *)
(***************************************************************************)
StoredDepth(id) == (CHOOSE c \in comments : c.id = id).depth

\* the reply forms that a step opens
Opened == {id \in FormIds \ {0} : ~forms[id].isReplying /\ forms'[id].isReplying}

\* C23: the Reply action is offered only to a signed-in user and only on a
\* comment rendered at depth 0 to 4, where the rendering depth of a comment
\* is its stored depth (0 for a root, the parent's plus 1 for a reply); so
\* no createComment request has a parent at depth 5 or more, and every
\* comment has depth at most 5.
C23_ReplyDepthCapped ==
  /\ [](/\ \A id \in RenderedIds : render_depth(treeOutput, id) = StoredDepth(id)
        /\ \A k \in Creators :
             (creq[k].pc \in {"sent", "locked", "read"} /\ creq[k].parent # None)
               => StoredDepth(creq[k].parent) < ReplyDepthLimit
        /\ \A c \in comments : c.depth <= ReplyDepthLimit)
  /\ [][\A id \in Opened :
          /\ currentUser # None
          /\ render_depth(treeOutput, id) < ReplyDepthLimit]_vars

\* a signed-in user sees a comment at depth 5, made by replying in the page
\* to the comment at depth 4, and has a reply form open elsewhere
C23_Witness ==
  /\ currentUser # None
  /\ \E c \in comments \ ThreadComments :
       /\ c.depth = ReplyDepthLimit
       /\ c.id \in RenderedIds
       /\ ~ReplyOffered(c.id)
  /\ \E id \in RenderedIds : forms[id].isReplying

(***************************************************************************)
(* Feed (Feed.jsx) and GET / POST /posts/                                  *)
(***************************************************************************)
RECURSIVE newest_first(_)
\* the posts of the table, newest first, as GET /posts/ lists them
newest_first(S) ==
  IF S = {} THEN <<>>
  ELSE LET top == CHOOSE p \in S : \A q \in S : q.id <= p.id
       IN <<top.id>> \o newest_first(S \ {top})

\* GET /posts/?page=n: the n-th PageSize posts of the list as results, next
\* set when there are more; a page past the end is answered 404, but for
\* page 1 of an empty list
page_of(n) ==
  LET all == newest_first(posts)
      first == (n - 1) * PageSize + 1
      last == Min(n * PageSize, Len(all))
  IN IF n > 1 /\ first > Len(all)
     THEN [ok |-> FALSE, results |-> <<>>, next |-> FALSE]
     ELSE [ok |-> TRUE, results |-> SubSeq(all, first, last), next |-> last < Len(all)]

\* a fetchPosts(pageNum, append) call that waits for getPosts(pageNum)
FetchCall(pageNum, append) ==
  [pageNum |-> pageNum, append |-> append, pc |-> "sent",
   ok |-> FALSE, results |-> <<>>, next |-> FALSE]

\* useEffect(() => { fetchPosts(); }, []): the Feed as mounted
MountedFeed == <<FetchCall(1, FALSE)>>

\* the server answers getPosts of call i, or the request fails
getPosts(i, reached) ==
  /\ i \in DOMAIN fetches
  /\ fetches[i].pc = "sent"
  /\ LET page == page_of(fetches[i].pageNum) IN
     fetches' = [fetches EXCEPT ![i].pc = "answered",
                                ![i].ok = reached /\ page.ok,
                                ![i].results = IF reached /\ page.ok THEN page.results ELSE <<>>,
                                ![i].next = reached /\ page.ok /\ page.next]
  /\ UNCHANGED <<tableVars, ledgerVars, now, req, boardVars, createVars, treeVars,
                 authVars, widgetVars, feed, formVars>>

\* fetchPosts after its await: setPosts(prev => [...prev, ...data.results])
\* when append, else setPosts(data.results); setHasMore(!!data.next); the
\* catch block logs; finally setLoading(false).  The call is kept with its
\* page number only.
fetchPosts(i) ==
  /\ i \in DOMAIN fetches
  /\ fetches[i].pc = "answered"
  /\ feed' =
       IF fetches[i].ok
       THEN [feed EXCEPT
               !.posts = IF fetches[i].append THEN @ \o fetches[i].results
                         ELSE fetches[i].results,
               !.hasMore = fetches[i].next,
               !.loading = FALSE]
       ELSE [feed EXCEPT !.loading = FALSE]
  /\ fetches' = [fetches EXCEPT ![i] =
       [FetchCall(fetches[i].pageNum, fetches[i].append) EXCEPT !.pc = "done"]]
  /\ UNCHANGED <<tableVars, ledgerVars, now, req, boardVars, createVars, treeVars,
                 authVars, widgetVars, formVars>>

\* loadMore, the onClick of the Load More button, which is rendered under
\* hasMore && posts.length > 0: if (hasMore && !loading) the next page is
\* page + 1, setPage(nextPage), fetchPosts(nextPage, true)
loadMore ==
  /\ feed.hasMore /\ Len(feed.posts) > 0
  /\ feed.hasMore /\ ~feed.loading
  /\ Len(fetches) < MaxFetches
  /\ feed' = [feed EXCEPT !.page = @ + 1]
  /\ fetches' = Append(fetches, FetchCall(feed.page + 1, TRUE))
  /\ UNCHANGED <<tableVars, ledgerVars, now, req, boardVars, createVars, treeVars,
                 authVars, widgetVars, formVars>>

\* the create-post form is on the page: not under the skeleton of
\* loading && posts.length === 0, and under user
PostFormShown == currentUser # None /\ ~(feed.loading /\ Len(feed.posts) = 0)

\* onChange of the textarea of the create-post form
typePost(text) ==
  /\ PostFormShown
  /\ text # feed.newPostContent
  /\ feed' = [feed EXCEPT !.newPostContent = text]
  /\ UNCHANGED <<tableVars, ledgerVars, now, req, boardVars, createVars, treeVars,
                 authVars, widgetVars, fetches, formVars>>

\* the sequence without its i-th element
Without(seq, i) == SubSeq(seq, 1, i - 1) \o SubSeq(seq, i + 1, Len(seq))

\* handleCreatePost up to its await: setIsSubmitting(true) and
\* createPost(newPostContent.trim())
handleCreatePost ==
  /\ PostFormShown
  /\ MaySubmit(feed.newPostContent, feed.isSubmitting)
  /\ Len(feed.calls) < NCreate
  /\ feed' = [feed EXCEPT !.isSubmitting = TRUE,
                          !.calls = Append(@, [pc |-> "sent", id |-> None])]
  /\ UNCHANGED <<tableVars, ledgerVars, now, req, boardVars, createVars, treeVars,
                 authVars, widgetVars, fetches, formVars>>

\* POST /posts/: the server stores the post with the next id, or the request
\* fails
createPost(i, reached) ==
  /\ i \in DOMAIN feed.calls
  /\ feed.calls[i].pc = "sent"
  /\ IF reached /\ Cardinality(posts) < MaxPosts
     THEN /\ posts' = posts \cup {[id |-> Cardinality(posts) + 1, author |-> currentUser]}
          /\ feed' = [feed EXCEPT !.calls[i] = [pc |-> "ok", id |-> Cardinality(posts) + 1]]
     ELSE /\ posts' = posts
          /\ feed' = [feed EXCEPT !.calls[i] = [pc |-> "failed", id |-> None]]
  /\ UNCHANGED <<comments, ledgerVars, now, req, boardVars, createVars, treeVars,
                 authVars, widgetVars, fetches, formVars>>

\* a post created from another page
createPostElsewhere(author) ==
  /\ Cardinality(posts) < MaxPosts
  /\ posts' = posts \cup {[id |-> Cardinality(posts) + 1, author |-> author]}
  /\ UNCHANGED <<comments, ledgerVars, now, req, boardVars, createVars, treeVars, uiVars>>

\* handleCreatePost after its await: setPosts(prev => [newPost, ...prev])
\* and setNewPostContent(''), or setError; finally setIsSubmitting(false)
handleCreatePostReturn(i) ==
  /\ i \in DOMAIN feed.calls
  /\ feed.calls[i].pc \in {"ok", "failed"}
  /\ feed' =
       IF feed.calls[i].pc = "ok"
       THEN [feed EXCEPT !.posts = <<feed.calls[i].id>> \o @, !.newPostContent = <<>>,
                         !.isSubmitting = FALSE, !.calls = Without(@, i)]
       ELSE [feed EXCEPT !.isSubmitting = FALSE, !.calls = Without(@, i)]
  /\ UNCHANGED <<tableVars, ledgerVars, now, req, boardVars, createVars, treeVars,
                 authVars, widgetVars, fetches, formVars>>

(***************************************************************************)
(* The feed of a visitor (signed in or not) over a Post table of one post  *)
(* more than a page, to which posts are added from this page and others.   *)
(***************************************************************************)
FeedPosts == {[id |-> i, author |-> 1] : i \in 1..(PageSize + 1)}

InitFeed ==
  /\ posts = FeedPosts
  /\ comments = {}
  /\ postLikes = EmptyBag
  /\ commentLikes = EmptyBag
  /\ now = 0
  /\ req = [r \in Reqs |-> IdleReq]
  /\ leaderboard = <<>>
  /\ lastUpdated = <<>>
  /\ creq = [k \in Creators |-> IdleCreate]
  /\ locks = {}
  /\ treeInput = <<>>
  /\ treeOutput = NoTree
  /\ currentUser \in {None, RaceUser}
  /\ authLoading = FALSE
  /\ authCalls = [a \in AuthSlots |-> IdleAuth]
  /\ widget = NoWidget
  /\ pending = {}
  /\ feed = NewFeed
  /\ fetches = MountedFeed
  /\ forms = [f \in FormIds |-> NewForm]
  /\ postView = NewPostView

NextFeed ==
  \/ \E i \in 1..MaxFetches, reached \in BOOLEAN : getPosts(i, reached)
  \/ \E i \in 1..MaxFetches : fetchPosts(i)
  \/ loadMore
  \/ \E text \in Contents : typePost(text)
  \/ handleCreatePost
  \/ \E i \in Creators, reached \in BOOLEAN : createPost(i, reached)
  \/ createPostElsewhere(NUsers)
  \/ \E i \in Creators : handleCreatePostReturn(i)

SpecFeed == InitFeed /\ [][NextFeed]_vars

(***************************************************************************)
(* Properties of the feed                                                  *)
(***************************************************************************)
\* C24: whatever the order of the initial load, Load More clicks (also one
\* clicked before the page of the one before has arrived) and post creations
\* (also a Load More after a post was created and prepended), the posts list
\* of the Feed never holds a post id twice, and no two fetchPosts calls ask
\* for the same page number.
C24_NoPostTwice ==
  /\ \A i, j \in DOMAIN feed.posts : feed.posts[i] = feed.posts[j] => i = j
  /\ \A i, j \in DOMAIN fetches : fetches[i].pageNum = fetches[j].pageNum => i = j

(***************************************************************************)
(* The three forms of the page: the create-post form of the Feed, the      *)
(* comment form of the first post and the reply form of its first comment. *)
(* The visitor types into one form at a time: a text is begun in a form    *)
(* while the other forms are empty and have no request under way.          *)
(***************************************************************************)
LoadedFeed ==
  [NewFeed EXCEPT !.posts = page_of(1).results, !.loading = FALSE,
                  !.hasMore = page_of(1).next]

FormAtRest(f) == forms[f] = NewForm \/ forms[f] = [NewForm EXCEPT !.isReplying = TRUE]
FeedFormAtRest ==
  feed.newPostContent = <<>> /\ ~feed.isSubmitting /\ feed.calls = <<>>

InitSubmit ==
  /\ posts = FeedPosts
  /\ comments = SeedComments
  /\ postLikes = EmptyBag
  /\ commentLikes = EmptyBag
  /\ now = 0
  /\ req = [r \in Reqs |-> IdleReq]
  /\ leaderboard = <<>>
  /\ lastUpdated = <<>>
  /\ creq = [k \in Creators |-> IdleCreate]
  /\ locks = {}
  /\ treeInput = <<>>
  /\ treeOutput = NoTree
  /\ currentUser = RaceUser
  /\ authLoading = FALSE
  /\ authCalls = [a \in AuthSlots |-> IdleAuth]
  /\ widget = NoWidget
  /\ pending = {}
  /\ feed = LoadedFeed
  /\ fetches = <<[FetchCall(1, FALSE) EXCEPT !.pc = "done"]>>
  /\ forms = [f \in FormIds |-> NewForm]
  /\ postView = NewPostView

NextSubmit ==
  \/ \E text \in Contents :
       /\ \A f \in FormIds : FormAtRest(f)
       /\ typePost(text)
  \/ handleCreatePost
  \/ \E i \in Creators, reached \in BOOLEAN : createPost(i, reached)
  \/ \E i \in Creators : handleCreatePostReturn(i)
  \/ ~postView.showComments /\ loadCommentsClick
  \/ ~forms[1].isReplying /\ clickReply(1)
  \/ cancelReply(1)
  \/ \E f \in {0, 1}, text \in Contents :
       /\ FeedFormAtRest
       /\ \A g \in FormIds \ {f} : FormAtRest(g)
       /\ typeContent(f, text)
  \/ \E k \in Creators : handleReply(1, k, MaxComments)
  \/ \E k \in Creators : handleSubmitComment(k, MaxComments)
  \/ \E k \in Creators : lock_scope(k)
  \/ \E k \in Creators : read_max(k)
  \/ \E k \in Creators : insert_comment(k)
  \/ \E k \in Creators : abandonCreate(k)
  \/ handleReplyReturn(1)
  \/ handleCommentAdded
  \/ handleSubmitCommentCreated
  \/ \E ok \in BOOLEAN : handleSubmitCommentReturn(ok)

SpecSubmit == InitSubmit /\ [][NextSubmit]_vars

(***************************************************************************)
(* Properties of the submit handlers                                       *)
(***************************************************************************)
\* the createComment requests of form f that are on their way or at the
\* server, those of unmounted CommentItems aside
RequestsOf(f) ==
  {k \in Creators \ postView.detached :
     creq[k].pc \in {"sent", "locked", "read"} /\ creq[k].parent = f}

\* C25: handleCreatePost, handleSubmitComment and handleReply issue no
\* request for an empty or white-space text; at most one create request of
\* a component is under way at any time; and the submitting flag of a
\* component is set exactly while its handler runs, so it is false again
\* once the request has completed, with the new row or with an error.
C25_OneSubmitAtATime ==
  /\ [](/\ Len(feed.calls) <= 1
        /\ feed.isSubmitting <=> feed.calls # <<>>
        /\ \A f \in FormIds :
             /\ Cardinality(RequestsOf(f)) <= 1
             /\ forms[f].isSubmitting <=> forms[f].pc # "idle")
  /\ [][/\ Len(feed'.calls) > Len(feed.calls) => trim(feed.newPostContent) # <<>>
        /\ \A k \in Creators :
             (creq[k].pc # "sent" /\ creq'[k].pc = "sent")
               => trim(forms[creq'[k].parent].content) # <<>>]_vars

\* a post made from the form is in the list, a reply has failed and left
\* its text ('a' and a space) in the reply form, and no flag is set
C25_Witness ==
  /\ Len(feed.posts) > PageSize
  /\ ~feed.isSubmitting
  /\ forms[1].content = <<97, 32>>
  /\ \E k \in Creators : creq[k] = FailedCreate
  /\ \A f \in FormIds : ~forms[f].isSubmitting

(***************************************************************************)
(* AuthProvider (context/AuthContext.jsx) and its calls of services/api.js *)
(***************************************************************************)
\* a call of slot a, on its way
AuthCall(op) == [op |-> op, pc |-> "sent", data |-> None]

\* the other variables of the model, which AuthProvider leaves alone
notAuthVars ==
  <<tableVars, ledgerVars, now, req, boardVars, createVars, treeVars,
    widgetVars, feedVars, formVars>>

\* fetchAPI: the awaited fetch resolves with response.json() when
\* response.ok, and throws otherwise; /login/, /register/ and /me/ answer
\* with a user, /csrf/ and /logout/ with a message
fetchAPI(a, ok, data) ==
  /\ authCalls[a].pc = "sent"
  /\ data # None <=> (ok /\ authCalls[a].op \in {"login", "register", "getCurrentUser"})
  /\ authCalls' = [authCalls EXCEPT ![a].pc = IF ok THEN "ok" ELSE "failed",
                                    ![a].data = data]
  /\ UNCHANGED <<currentUser, authLoading, notAuthVars>>

\* init() at `await api.initCSRF()`, giving up the try block however the
\* token request ended
init_initCSRF_unchecked ==
  /\ authCalls[0].op = "initCSRF"
  /\ authCalls[0].pc \in {"ok", "failed"}
  /\ authCalls' = [authCalls EXCEPT ![0] = AuthCall("getCurrentUser")]
  /\ UNCHANGED <<currentUser, authLoading, notAuthVars>>

\* init() at `await api.initCSRF()`: resolved, api.getCurrentUser() is
\* called; rejected, the catch block sets user to null and the finally block
\* sets loading to false
init_initCSRF ==
  /\ authCalls[0].op = "initCSRF"
  /\ authCalls[0].pc \in {"ok", "failed"}
  /\ IF authCalls[0].pc = "ok"
       THEN /\ authCalls' = [authCalls EXCEPT ![0] = AuthCall("getCurrentUser")]
            /\ UNCHANGED <<currentUser, authLoading>>
       ELSE /\ currentUser' = None
            /\ authLoading' = FALSE
            /\ authCalls' = [authCalls EXCEPT ![0] = IdleAuth]
  /\ UNCHANGED notAuthVars

\* init() at `await api.getCurrentUser()`: resolved, setUser(userData);
\* rejected, setUser(null); then setLoading(false)
init_getCurrentUser ==
  /\ authCalls[0].op = "getCurrentUser"
  /\ authCalls[0].pc \in {"ok", "failed"}
  /\ currentUser' = IF authCalls[0].pc = "ok" THEN authCalls[0].data ELSE None
  /\ authLoading' = FALSE
  /\ authCalls' = [authCalls EXCEPT ![0] = IdleAuth]
  /\ UNCHANGED notAuthVars

\* login / register of the context, up to the await: the forms of
\* AuthModal call them, and the modal stays open until it is closed by hand
login(a) ==
  /\ a # 0
  /\ authCalls[a] = IdleAuth
  /\ authCalls' = [authCalls EXCEPT ![a] = AuthCall("login")]
  /\ UNCHANGED <<currentUser, authLoading, notAuthVars>>

register(a) ==
  /\ a # 0
  /\ authCalls[a] = IdleAuth
  /\ authCalls' = [authCalls EXCEPT ![a] = AuthCall("register")]
  /\ UNCHANGED <<currentUser, authLoading, notAuthVars>>

\* logout of the context, up to the await: Header offers Sign Out when
\* user is set
logout(a) ==
  /\ a # 0
  /\ currentUser # None
  /\ authCalls[a] = IdleAuth
  /\ authCalls' = [authCalls EXCEPT ![a] = AuthCall("logout")]
  /\ UNCHANGED <<currentUser, authLoading, notAuthVars>>

\* login / register after the await: setUser(userData) when the call
\* resolved; when it rejected the function throws before setUser
loginReturn(a) ==
  /\ a # 0
  /\ authCalls[a].op \in {"login", "register"}
  /\ authCalls[a].pc \in {"ok", "failed"}
  /\ currentUser' = IF authCalls[a].pc = "ok" THEN authCalls[a].data ELSE currentUser
  /\ authCalls' = [authCalls EXCEPT ![a] = IdleAuth]
  /\ UNCHANGED <<authLoading, notAuthVars>>

\* logout after the await: setUser(null) when the call resolved
logoutReturn(a) ==
  /\ a # 0
  /\ authCalls[a].op = "logout"
  /\ authCalls[a].pc \in {"ok", "failed"}
  /\ currentUser' = IF authCalls[a].pc = "ok" THEN None ELSE currentUser
  /\ authCalls' = [authCalls EXCEPT ![a] = IdleAuth]
  /\ UNCHANGED <<authLoading, notAuthVars>>

\* AuthProvider has been mounted: user null, loading true, and the effect
\* has called init(), which waits for initCSRF
MountedAuth ==
  /\ currentUser = None
  /\ authLoading = TRUE
  /\ authCalls = [a \in AuthSlots |-> IF a = 0 THEN AuthCall("initCSRF") ELSE IdleAuth]

InitAuth ==
  /\ posts = {}
  /\ comments = {}
  /\ postLikes = EmptyBag
  /\ commentLikes = EmptyBag
  /\ now = 0
  /\ req = [r \in Reqs |-> IdleReq]
  /\ leaderboard = <<>>
  /\ lastUpdated = <<>>
  /\ creq = [k \in Creators |-> IdleCreate]
  /\ locks = {}
  /\ treeInput = <<>>
  /\ treeOutput = NoTree
  /\ MountedAuth
  /\ widget = NoWidget
  /\ pending = {}
  /\ feed = NewFeed
  /\ fetches = <<>>
  /\ forms = [f \in FormIds |-> NewForm]
  /\ postView = NewPostView

answerAuth ==
  \E a \in AuthSlots, ok \in BOOLEAN, data \in Users \cup {None} : fetchAPI(a, ok, data)

NextAuth ==
  \/ answerAuth
  \/ init_initCSRF
  \/ init_getCurrentUser
  \/ \E a \in AuthSlots : login(a)
  \/ \E a \in AuthSlots : register(a)
  \/ \E a \in AuthSlots : logout(a)
  \/ \E a \in AuthSlots : loginReturn(a)
  \/ \E a \in AuthSlots : logoutReturn(a)

\* every fetch settles (the browser resolves or rejects it), and the
\* continuation of an awaited promise that has settled is run
SpecAuth ==
  /\ InitAuth
  /\ [][NextAuth]_vars
  /\ WF_vars(\E ok \in BOOLEAN, data \in Users \cup {None} : fetchAPI(0, ok, data))
  /\ WF_vars(init_initCSRF)
  /\ WF_vars(init_getCurrentUser)

(***************************************************************************)
(* Properties of AuthProvider                                              *)
(***************************************************************************)
\* init() has both of its requests answered successfully and is about to
\* finish
InitSucceeds == authCalls[0].op = "getCurrentUser" /\ authCalls[0].pc = "ok"
\* this step finishes init()
InitFinishes == authLoading /\ ~authLoading'
\* call a returns to its caller in this step
AuthReturns(a) == authCalls[a].pc \in {"ok", "failed"} /\ authCalls'[a] = IdleAuth

\* C26: on mount getCurrentUser is requested only after initCSRF has
\* completed successfully; loading eventually becomes false, whether
\* initialisation succeeds or fails, and stays false; when init() finishes
\* user is the returned user if both requests succeeded and null otherwise;
\* login and register set user only when their request has succeeded, to
\* the user returned; logout sets user to null only when its request has
\* succeeded; a failed request leaves user unchanged.
C26_AuthProviderFollowsRequests ==
  /\ [][/\ (authCalls[0].op # "getCurrentUser" /\ authCalls'[0].op = "getCurrentUser")
            => (authCalls[0].op = "initCSRF" /\ authCalls[0].pc = "ok")
        /\ authCalls'[0].op = "initCSRF" => authCalls[0] = authCalls'[0] \/ authCalls[0].pc = "sent"
        /\ InitFinishes
            => currentUser' = IF InitSucceeds THEN authCalls[0].data ELSE None
        /\ ~authLoading => ~authLoading'
        /\ \A a \in AuthSlots \ {0} :
             AuthReturns(a) =>
               currentUser' = CASE authCalls[a].pc = "failed" -> currentUser
                                [] authCalls[a].op = "logout" -> None
                                [] OTHER -> authCalls[a].data
        /\ currentUser' # currentUser
            => \/ InitFinishes
               \/ \E a \in AuthSlots \ {0} : AuthReturns(a) /\ authCalls[a].pc = "ok"]_vars
  /\ <>[](~authLoading)

\* init() has finished and found a signed-in user, and a logout of that
\* user has failed and is about to return
C26_Witness ==
  /\ ~authLoading
  /\ currentUser # None
  /\ \E a \in AuthSlots \ {0} : authCalls[a].op = "logout" /\ authCalls[a].pc = "failed"

====
